---- MODULE Spec2Model ----
(***************************************************************************)
(* Vault reservation state machine of the stablecoin canister              *)
(* (canisters/stablecoin/src/lib.rs): the settings cell with the vault id  *)
(* counter, the pending store PENDING_MINTS, the durable store VAULTS, and *)
(* the update calls build_psbt and finalize_mint cut at their await points.*)
(* Execution is single threaded: one step of the model is the code that    *)
(* runs between two await points of one invocation.                        *)
(***************************************************************************)
EXTENDS Integers, Sequences, FiniteSets, TLC

VARIABLES
    SETTINGS,        \* thread_local SETTINGS: RefCell<Settings>
    VAULTS,          \* thread_local VAULTS: BTreeMap<String, StoredVaultRecord>
    PENDING_MINTS,   \* thread_local PENDING_MINTS: BTreeMap<String, PendingMintRecord>
    now,             \* ic_cdk::api::time(), non-decreasing
    inv,             \* the invocations in flight, one record per slot
    builds,          \* number of build_psbt calls started so far
    finalizes,       \* number of finalize_mint and finalize_withdraw calls started so far
    broadcasts,      \* transactions bitcoin_send_transaction accepted so far
    savedVaults,     \* history: the keys of VAULTS pre_upgrade saved last
    issued,          \* history: the id next_vault_id returned last, and the
                     \* largest id it had returned before that
    mintCount,       \* history: per key, how often persist_finalized_vault inserted it
    lastPendingOp,   \* history: per key, the last operation on PENDING_MINTS
    signs,           \* number of sign_withdraw calls started so far
    calc             \* a pure function under evaluation, or the last
                     \* get_collateral_preview: its input and result

vars == <<SETTINGS, VAULTS, PENDING_MINTS, now, inv, builds, finalizes,
          broadcasts, savedVaults, issued, mintCount, lastPendingOp,
          signs, calc>>

(***************************************************************************)
(* Bounds of the model.                                                    *)
(***************************************************************************)
\* width of a vault id and of the clock, standing for the 64 bits of u64
IdBits == 3
\* build_psbt calls and finalize_mint calls started in one behaviour
MaxBuilds == 2
MaxFinalizes == 2
\* sign_withdraw calls started in one behaviour
MaxSigns == 2
\* width of a satoshi amount, standing for the 64 bits of u64
SatsBits == 28
\* bits of the significand of a float, standing for the 53 bits of f64
MantBits == 24
\* the largest usd_cents the collateral formula is evaluated at, besides the
\* default
MaxUsdCents == 7
\* most outputs bitcoin_get_utxos returns for the funding address
MaxUtxos == 3

U64Modulus == 2 ^ IdBits
U64Max == U64Modulus - 1
SatsMax == 2 ^ SatsBits - 1
\* the readings of the clock: the first instants, and the largest u64
ClockReadings == {0, U64Max}
Procs == {1, 2}

(***************************************************************************)
(* Program constants.                                                      *)
(***************************************************************************)
BACKEND_HTTP_MAX_RETRIES == 2
FIXED_MINT_TOKENS == 10
FIXED_MINT_USD_CENTS == 1000
DEFAULT_MIN_CONFIRMATIONS == 6
\* COLLATERAL_FALLBACK_PRICE_USD = 100_734.10, in cents
COLLATERAL_FALLBACK_PRICE_USD == 10073410
CANISTER_VAULTS_ENABLED == TRUE
TX_FEE_BUFFER_SATS == 3000
DEFAULT_ORDINALS_SATS == 1000
DEFAULT_FEE_SATS == 1000
DEFAULT_RUNE_HEX == "6a5d0a00c0a2330380c2d72f02"
TAPROOT_LEAF_VERSION == 192
\* lengths of an x-only and of a compressed public key, in bytes
X_ONLY_KEY_LEN == 32
COMPRESSED_KEY_LEN == 33
SCHNORR_KEY_NAME == "dfx_test_key"
PROTOCOL_DOMAIN_LABEL == "usdb"
PROTOCOL_ROLE_LABEL == "proto"

canister_vaults_enabled == CANISTER_VAULTS_ENABLED

(***************************************************************************)
(* Maps (BTreeMap) and options.                                            *)
(***************************************************************************)
EmptyMap == [k \in {} |-> k]
MapInsert(m, k, v) == [x \in (DOMAIN m) \cup {k} |-> IF x = k THEN v ELSE m[x]]
MapRemove(m, k) == [x \in (DOMAIN m) \ {k} |-> m[x]]

None == [some |-> FALSE]
Some(v) == [some |-> TRUE, val |-> v]

Max(a, b) == IF a >= b THEN a ELSE b

\* the sum of a sequence of numbers
RECURSIVE BeSum(_)
BeSum(seq) == IF seq = <<>> THEN 0 ELSE seq[1] + BeSum(Tail(seq))

(***************************************************************************)
(* u64::to_string: the decimal digits of the number.                       *)
(***************************************************************************)
Digit == <<"0", "1", "2", "3", "4", "5", "6", "7", "8", "9">>

RECURSIVE to_string(_)
to_string(n) ==
    IF n < 10 THEN Digit[n + 1]
    ELSE to_string(n \div 10) \o Digit[(n % 10) + 1]

\* str::trim().is_empty() on the request strings the model draws
TrimIsEmpty(s) == s \in {"", " "}

(***************************************************************************)
(* Hex strings: a string is the sequence of its characters.                *)
(***************************************************************************)
Ok(v) == [ok |-> TRUE, val |-> v]
Err(e) == [ok |-> FALSE, err |-> e]

HexLower == <<"0", "1", "2", "3", "4", "5", "6", "7", "8", "9",
              "a", "b", "c", "d", "e", "f">>
HexUpper == <<"0", "1", "2", "3", "4", "5", "6", "7", "8", "9",
              "A", "B", "C", "D", "E", "F">>

\* format!("{:02x}", byte) for every byte
RECURSIVE to_hex(_)
to_hex(bytes) ==
    IF bytes = <<>> THEN <<>>
    ELSE <<HexLower[(bytes[1] \div 16) + 1], HexLower[(bytes[1] % 16) + 1]>>
           \o to_hex(Tail(bytes))

\* the same digits in upper case, as other tools print keys
RECURSIVE to_hex_upper(_)
to_hex_upper(bytes) ==
    IF bytes = <<>> THEN <<>>
    ELSE <<HexUpper[(bytes[1] \div 16) + 1], HexUpper[(bytes[1] % 16) + 1]>>
           \o to_hex_upper(Tail(bytes))

\* char::to_digit(16)
to_digit(ch) ==
    IF \E d \in 1..16 : HexLower[d] = ch
    THEN Some((CHOOSE d \in 1..16 : HexLower[d] = ch) - 1)
    ELSE IF \E d \in 1..16 : HexUpper[d] = ch
    THEN Some((CHOOSE d \in 1..16 : HexUpper[d] = ch) - 1)
    ELSE None

RECURSIVE from_hex_pairs(_)
from_hex_pairs(hex) ==
    IF hex = <<>> THEN Ok(<<>>)
    ELSE LET hi == to_digit(hex[1])
             lo == to_digit(hex[2])
         IN IF ~hi.some \/ ~lo.some THEN Err("invalid_hex_character")
            ELSE LET rest == from_hex_pairs(SubSeq(hex, 3, Len(hex)))
                 IN IF rest.ok THEN Ok(<<(hi.val * 16) + lo.val>> \o rest.val)
                    ELSE rest

from_hex(hex) ==
    IF Len(hex) % 2 # 0 THEN Err("hex_string_length_must_be_even")
    ELSE from_hex_pairs(hex)

IsWhitespace(ch) == ch \in {" ", "\t", "\n"}

\* str::trim
RECURSIVE trim_start(_)
trim_start(str) ==
    IF str # <<>> /\ IsWhitespace(str[1]) THEN trim_start(Tail(str)) ELSE str

RECURSIVE trim_end(_)
trim_end(str) ==
    IF str # <<>> /\ IsWhitespace(str[Len(str)])
    THEN trim_end(SubSeq(str, 1, Len(str) - 1)) ELSE str

trim(str) == trim_end(trim_start(str))

parse_x_only_key_keep_prefix(hex_str) ==
    LET bytes == from_hex(trim(hex_str)) IN
      IF ~bytes.ok THEN bytes
      ELSE IF Len(bytes.val) = X_ONLY_KEY_LEN THEN Ok(bytes.val)
      ELSE IF Len(bytes.val) = COMPRESSED_KEY_LEN
      THEN Ok(SubSeq(bytes.val, 1, X_ONLY_KEY_LEN))
      ELSE Err("invalid_pubkey_length")

parse_x_only_key(hex_str) ==
    LET bytes == from_hex(trim(hex_str)) IN
      IF ~bytes.ok THEN bytes
      ELSE IF Len(bytes.val) = X_ONLY_KEY_LEN THEN Ok(bytes.val)
      ELSE IF Len(bytes.val) = COMPRESSED_KEY_LEN
      THEN IF bytes.val[1] # 2 /\ bytes.val[1] # 3
           THEN Err("invalid_compressed_pubkey")
           ELSE Ok(SubSeq(bytes.val, 2, Len(bytes.val)))
      ELSE Err("invalid_pubkey_length")

(***************************************************************************)
(* Taproot: leaf scripts, tagged hashes, the output key and its address.   *)
(* SHA-256 and the curve are not computed: Sha256 and TweakAddX stand for  *)
(* them as deterministic functions of all their input bytes, in order.     *)
(***************************************************************************)
\* the characters of a string
Chars(str) == [i \in 1..Len(str) |-> SubSeq(str, i, i)]

\* a sequence of characters as one string
RECURSIVE Text(_)
Text(chars) == IF chars = <<>> THEN "" ELSE chars[1] \o Text(Tail(chars))

UpperCase == Chars("ABCDEFGHIJKLMNOPQRSTUVWXYZ")
LowerCase == Chars("abcdefghijklmnopqrstuvwxyz")

\* char::to_lowercase on ASCII
char_to_lowercase(ch) ==
    IF \E k \in 1..26 : UpperCase[k] = ch
    THEN LowerCase[CHOOSE k \in 1..26 : UpperCase[k] = ch]
    ELSE ch

\* str::to_lowercase
to_lowercase(str) ==
    Text([i \in 1..Len(str) |-> char_to_lowercase(SubSeq(str, i, i))])

encode_script_num(value) ==
    IF value = 0 THEN <<0>>
    ELSE IF value \in 1..16 THEN <<80 + value>>
    ELSE <<value>>

\* a script that pushes the keys last to first
RECURSIVE multi_a_keys_reversed(_, _)
multi_a_keys_reversed(keys, idx) ==
    IF idx >= Len(keys) THEN <<>>
    ELSE <<32>> \o keys[Len(keys) - idx]
           \o (IF idx = 0 THEN <<172>> ELSE <<186>>)
           \o multi_a_keys_reversed(keys, idx + 1)

\* for (idx, key) in keys.iter().enumerate(), from position idx on
RECURSIVE multi_a_keys(_, _)
multi_a_keys(keys, idx) ==
    IF idx >= Len(keys) THEN <<>>
    ELSE <<32>> \o keys[idx + 1]
           \o (IF idx = 0 THEN <<172>> ELSE <<186>>)
           \o multi_a_keys(keys, idx + 1)

multi_a_script(keys, threshold) ==
    multi_a_keys(keys, 0) \o encode_script_num(threshold) \o <<156>>

\* value.to_le_bytes() cut to n bytes
RECURSIVE le_bytes(_, _)
le_bytes(value, n) ==
    IF n = 0 THEN <<>> ELSE <<value % 256>> \o le_bytes(value \div 256, n - 1)

\* lengths below 2^31 only: the 0xFF form is never reached
encode_varint(value) ==
    IF value < 253 THEN <<value>>
    ELSE IF value <= 65535 THEN <<253>> \o le_bytes(value, 2)
    ELSE <<254>> \o le_bytes(value, 4)

\* the sum of weight(i) * data[i] over lo..hi, modulo a prime; weight(i) is
\* (i * i) + (k * i) + 1
RECURSIVE WeightedSum(_, _, _, _)
WeightedSum(data, k, lo, hi) ==
    IF lo > hi THEN 0
    ELSE IF lo = hi THEN (((lo * lo) + (k * lo) + 1) * (data[lo] + 1)) % 65521
    ELSE LET mid == (lo + hi) \div 2
         IN (WeightedSum(data, k, lo, mid) + WeightedSum(data, k, mid + 1, hi)) % 65521

\* stand-in for Sha256::digest: 32 bytes that depend on every byte of the
\* data, on its position and on the length
Sha256(data) ==
    LET a == WeightedSum(data, 3, 1, Len(data))
        b == WeightedSum(data, 11, 1, Len(data))
    IN [i \in 1..32 |-> (((a + 1) * ((2 * i) + 1)) + (b * i) + (i * i) + Len(data)) % 256]

\* tag.as_bytes() of the three tags in use
TagBytes(tag) ==
    IF tag = "TapLeaf" THEN <<84, 97, 112, 76, 101, 97, 102>>
    ELSE IF tag = "TapBranch" THEN <<84, 97, 112, 66, 114, 97, 110, 99, 104>>
    ELSE <<84, 97, 112, 84, 119, 101, 97, 107>>

tagged_hash(tag, data) ==
    LET tag_digest == Sha256(TagBytes(tag))
    IN Sha256(tag_digest \o tag_digest \o data)

tap_leaf_hash(script) ==
    tagged_hash("TapLeaf",
                <<TAPROOT_LEAF_VERSION>> \o encode_varint(Len(script)) \o script)

\* left <= right on byte arrays of one length: the first differing byte decides
ArrayLeq(left, right) ==
    \/ left = right
    \/ \E i \in 1..Len(left) :
         /\ left[i] < right[i]
         /\ \A j \in 1..(i - 1) : left[j] = right[j]

\* a branch hash that keeps the operands as given
tap_branch_hash_unordered(left, right) ==
    tagged_hash("TapBranch", left \o right)

tap_branch_hash(left, right) ==
    LET first == IF ArrayLeq(left, right) THEN left ELSE right
        second == IF ArrayLeq(left, right) THEN right ELSE left
    IN tagged_hash("TapBranch", first \o second)

\* stand-in for the curve: x lifts to a point iff the sum of its bytes is even
\* and not zero
LiftsX(bytes) ==
    LET total == BeSum(bytes) IN total > 0 /\ total % 2 = 0

projective_point_from_xonly(bytes) ==
    IF LiftsX(bytes) THEN Ok([x |-> bytes, prefix |-> 2])
    ELSE Err("invalid_internal_key")

\* stand-in for the x coordinate of point + GENERATOR * tweak
TweakAddX(point, tweak) == Sha256(<<point.prefix>> \o point.x \o tweak)

taproot_output_key(internal_key, merkle_root) ==
    LET payload == internal_key
                     \o (IF merkle_root.some THEN merkle_root.val ELSE <<>>)
        tweak == tagged_hash("TapTweak", payload)
        internal_point == projective_point_from_xonly(internal_key)
    IN IF ~internal_point.ok THEN internal_point
       ELSE Ok(TweakAddX(internal_point.val, tweak))

Bech32Charset == Chars("qpzry9x8gf2tvdw0s3jn54khce6mua7l")

\* to_base32: the bits of the bytes in groups of five, the last group padded
\* with zeros (acc: the bits not yet written, n: how many they are)
RECURSIVE to_base32_from(_, _, _)
to_base32_from(bytes, acc, n) ==
    IF n >= 5
    THEN <<acc \div (2 ^ (n - 5))>> \o to_base32_from(bytes, acc % (2 ^ (n - 5)), n - 5)
    ELSE IF bytes = <<>>
    THEN (IF n = 0 THEN <<>> ELSE <<acc * (2 ^ (5 - n))>>)
    ELSE to_base32_from(Tail(bytes), (acc * 256) + bytes[1], n + 8)

to_base32(bytes) == to_base32_from(bytes, 0, 0)

RECURSIVE Bech32Text(_)
Bech32Text(data) ==
    IF data = <<>> THEN ""
    ELSE Bech32Charset[data[1] + 1] \o Bech32Text(Tail(data))

\* bech32::encode(hrp, [version 1] ++ program, Bech32m); bitcoin_network() is
\* Testnet.  The six checksum characters are not computed.
taproot_address(hrp, output_key) ==
    Ok(hrp \o "1" \o Bech32Text(<<1>> \o to_base32(output_key)))

\* derive_vault_address with its locals; keys_cfg: settings.protocol_keys
DeriveVaultAddressSteps(keys_cfg, protocol_public_key, user_payment_public_key) ==
    LET guardian_key == parse_x_only_key(Chars(keys_cfg.guardian_internal_key))
        vault_a == parse_x_only_key(Chars(keys_cfg.vault_key_a))
        vault_b == parse_x_only_key(Chars(keys_cfg.vault_key_b))
        protocol == parse_x_only_key(Chars(protocol_public_key))
        user == parse_x_only_key(Chars(user_payment_public_key))
    IN IF ~guardian_key.ok THEN [result |-> guardian_key]
       ELSE IF ~vault_a.ok THEN [result |-> vault_a]
       ELSE IF ~vault_b.ok THEN [result |-> vault_b]
       ELSE IF ~protocol.ok THEN [result |-> protocol]
       ELSE IF ~user.ok THEN [result |-> user]
       ELSE
         LET leaf_a_script == multi_a_script(<<protocol.val, user.val>>, 2)
             leaf_b_script == multi_a_script(<<vault_a.val, vault_b.val>>, 2)
             leaf_a_hash == tap_leaf_hash(leaf_a_script)
             leaf_b_hash == tap_leaf_hash(leaf_b_script)
             merkle_root == tap_branch_hash(leaf_a_hash, leaf_b_hash)
             output_key == taproot_output_key(guardian_key.val, Some(merkle_root))
         IN [ leaf_a_script |-> leaf_a_script,
              leaf_b_script |-> leaf_b_script,
              merkle_root |-> merkle_root,
              output_key |-> output_key,
              result |-> IF ~output_key.ok THEN output_key
                         ELSE taproot_address("tb", output_key.val) ]

\* an address that depends on the id counter
derive_vault_address_counting(keys_cfg, protocol_public_key, user_payment_public_key) ==
    LET result == DeriveVaultAddressSteps(keys_cfg, protocol_public_key,
                                          user_payment_public_key).result
    IN IF result.ok THEN Ok(result.val \o to_string(SETTINGS.next_vault_id))
       ELSE result

derive_vault_address(keys_cfg, protocol_public_key, user_payment_public_key) ==
    DeriveVaultAddressSteps(keys_cfg, protocol_public_key,
                            user_payment_public_key).result

(***************************************************************************)
(* f64 arithmetic: a float is m * 2^e with m = 0 or MantBits significant   *)
(* bits; every operation rounds its exact result to the nearest float,     *)
(* ties to even.  The exponent range is not limited.                       *)
(***************************************************************************)
RECURSIVE BitLen(_)
BitLen(n) == IF n = 0 THEN 0 ELSE 1 + BitLen(n \div 2)

F64Zero == [m |-> 0, e |-> 0]

\* the float nearest to n * 2^e (+ a positive part below the last bit of n
\* when sticky); with sticky, n has more than MantBits bits
F64Round(n, e, sticky) ==
    IF n = 0 THEN F64Zero
    ELSE LET b == BitLen(n) IN
      IF b <= MantBits
      THEN [m |-> n * 2 ^ (MantBits - b), e |-> e - (MantBits - b)]
      ELSE LET k == b - MantBits
               q == n \div 2 ^ k
               r == n % 2 ^ k
               half == 2 ^ (k - 1)
               up == \/ r > half
                     \/ r = half /\ (sticky \/ q % 2 = 1)
               q2 == IF up THEN q + 1 ELSE q
           IN IF q2 = 2 ^ MantBits
              THEN [m |-> 2 ^ (MantBits - 1), e |-> e + k + 1]
              ELSE [m |-> q2, e |-> e + k]

\* u16 as f64, u32 as f64, and the float literals
F64FromInt(n) == F64Round(n, 0, FALSE)

\* n further quotient bits of r / d (r < d): the quotient and the remainder
RECURSIVE DivBits(_, _, _, _)
DivBits(r, d, n, q) ==
    IF n = 0 THEN [q |-> q, r |-> r]
    ELSE IF 2 * r >= d THEN DivBits(2 * r - d, d, n - 1, 2 * q + 1)
         ELSE DivBits(2 * r, d, n - 1, 2 * q)

\* a / b, b # 0
F64Div(a, b) ==
    IF a.m = 0 THEN F64Zero
    ELSE LET qr == DivBits(a.m % b.m, b.m, MantBits + 1, a.m \div b.m)
         IN F64Round(qr.q, a.e - b.e - (MantBits + 1), qr.r # 0)

\* a * b: the product of the significands in halves of HalfBits bits
HalfBits == MantBits \div 2

F64Mul(a, b) ==
    IF a.m = 0 \/ b.m = 0 THEN F64Zero
    ELSE LET w == 2 ^ HalfBits
             ah == a.m \div w
             al == a.m % w
             bh == b.m \div w
             bl == b.m % w
             lo == al * bl
             mid == (ah * bl) + (al * bh) + (lo \div w)
             hi == (ah * bh) + (mid \div w)
             low == (mid % w) * w + (lo % w)     \* the low 2 * HalfBits bits
             cut == 2 ^ (2 * HalfBits - 2)
         IN F64Round((hi * 4) + (low \div cut), a.e + b.e + 2 * HalfBits - 2,
                     (low % cut) # 0)

\* f64::ceil() as u64 of a float >= 0: the cast saturates
CeilAsU64_floor(x) ==
    IF x.m = 0 THEN 0
    ELSE IF x.e >= 0
    THEN IF MantBits + x.e > SatsBits THEN SatsMax
         ELSE IF x.m * 2 ^ x.e > SatsMax THEN SatsMax ELSE x.m * 2 ^ x.e
    ELSE IF -x.e > MantBits THEN 0
    ELSE x.m \div 2 ^ (-x.e)

CeilAsU64(x) ==
    IF x.m = 0 THEN 0
    ELSE IF x.e >= 0
    THEN IF MantBits + x.e > SatsBits THEN SatsMax
         ELSE IF x.m * 2 ^ x.e > SatsMax THEN SatsMax ELSE x.m * 2 ^ x.e
    ELSE IF -x.e > MantBits THEN 1
    ELSE (x.m + 2 ^ (-x.e) - 1) \div 2 ^ (-x.e)

\* the f64 of a price kept in cents: the literal 100_734.10 is the float
\* nearest to 10073410 / 100
F64FromCents(cents) == F64Div(F64FromInt(cents), F64FromInt(100))

compute_target_collateral_sats_times_price(price, ratio_bps, usd_cents) ==
    LET usd == F64Div(F64FromInt(usd_cents), F64FromInt(100))
        ratio == F64Div(F64FromInt(ratio_bps), F64FromInt(10000))
    IN CeilAsU64(F64Mul(F64Mul(F64Mul(usd, ratio), price),
                        F64FromInt(100000000)))

compute_target_collateral_sats(price, ratio_bps, usd_cents) ==
    LET usd == F64Div(F64FromInt(usd_cents), F64FromInt(100))
        ratio == F64Div(F64FromInt(ratio_bps), F64FromInt(10000))
    IN CeilAsU64(F64Mul(F64Div(F64Mul(usd, ratio), price),
                        F64FromInt(100000000)))

(***************************************************************************)
(* Settings.                                                               *)
(***************************************************************************)
default_schnorr_key_name == SCHNORR_KEY_NAME

\* Settings::default().protocol_keys
ProtocolKeysDefault ==
    [ guardian_internal_key |->
        "03b24f7ae21c41df53bb95f138440c1b396404f1da2aa824821720d223685ed7f1",
      vault_key_a |->
        "0265f4ca4c628565963028803861eef79ff19f49223822e9bdfc49532148e79363",
      vault_key_b |->
        "03cb4d09e437d2a3497d6507fe62f66f668c9c647d4ea9ffb02c8845c5c53ce663" ]

SettingsDefault ==
    [ backend_base_url |-> "",
      ordinals_sats |-> 0,
      fee_recipient_sats |-> 0,
      fee_recipient_address |-> "",
      rune_op_return_hex |-> "",
      xrc_canister_id |-> None,
      collateral_ratio_bps |-> 13000,
      collateral_usd_cents |-> 2000,
      next_vault_id |-> 1,
      schnorr_key_name |-> default_schnorr_key_name,
      protocol_keys |-> ProtocolKeysDefault ]

\* next_vault_id with the clock reading `time`: the id and the settings after
next_vault_id(st, time) ==
    LET t == Max(time, 1)
        cur == IF t > st.next_vault_id THEN t ELSE st.next_vault_id
    IN [ id |-> cur,
         settings |-> [st EXCEPT !.next_vault_id =
                          Max((cur + 1) % U64Modulus, 1)] ]

(***************************************************************************)
(* build_mint_overrides: the inputs and outputs build_psbt asks the        *)
(* backend to use.  Satoshi amounts are u64, SatsBits wide here.           *)
(***************************************************************************)
saturating_add(a, b) == IF a + b > SatsMax THEN SatsMax ELSE a + b
saturating_sub(a, b) == IF a < b THEN 0 ELSE a - b

sats_to_btc_float(sats) == F64Div(F64FromInt(sats), F64FromInt(100000000))

RECURSIVE Reverse(_)
Reverse(seq) ==
    IF seq = <<>> THEN <<>> ELSE Append(Reverse(Tail(seq)), seq[1])

txid_bytes_to_hex(txid) == to_hex(Reverse(txid))

\* a.value.cmp(&b.value).then_with(|| a.outpoint.vout.cmp(&b.outpoint.vout))
\* is Ordering::Less
UtxoLess(a, b) ==
    \/ a.value < b.value
    \/ a.value = b.value /\ a.vout < b.vout

\* sort_by is stable: an output goes behind the outputs it does not precede
RECURSIVE SortInsert(_, _)
SortInsert(sorted, u) ==
    IF sorted = <<>> THEN <<u>>
    ELSE IF UtxoLess(u, sorted[1]) THEN <<u>> \o sorted
    ELSE <<sorted[1]>> \o SortInsert(Tail(sorted), u)

RECURSIVE sort_by_value_vout(_)
sort_by_value_vout(utxos) ==
    IF utxos = <<>> THEN <<>>
    ELSE SortInsert(sort_by_value_vout(SubSeq(utxos, 1, Len(utxos) - 1)),
                    utxos[Len(utxos)])

\* a loop that never breaks
RECURSIVE select_loop_no_break(_, _, _, _)
select_loop_no_break(utxos, selected, sum, total_required) ==
    IF utxos = <<>> THEN [selected |-> selected, sum |-> sum]
    ELSE select_loop_no_break(Tail(utxos), Append(selected, utxos[1]),
                              saturating_add(sum, utxos[1].value),
                              total_required)

\* for utxo in utxos { sum = sum.saturating_add(..); selected.push(utxo);
\* if sum >= total_required { break; } }
RECURSIVE select_loop(_, _, _, _)
select_loop(utxos, selected, sum, total_required) ==
    IF utxos = <<>> THEN [selected |-> selected, sum |-> sum]
    ELSE LET sum2 == saturating_add(sum, utxos[1].value)
             selected2 == Append(selected, utxos[1])
         IN IF sum2 >= total_required
            THEN [selected |-> selected2, sum |-> sum2]
            ELSE select_loop(Tail(utxos), selected2, sum2, total_required)

total_required(cfg, vault_sats) ==
    LET ordinals_sats == IF cfg.ordinals_sats > 0 THEN cfg.ordinals_sats
                         ELSE DEFAULT_ORDINALS_SATS
        fee_sats == IF cfg.fee_recipient_sats > 0 THEN cfg.fee_recipient_sats
                    ELSE DEFAULT_FEE_SATS
    IN saturating_add(saturating_add(saturating_add(ordinals_sats, fee_sats),
                                     vault_sats),
                      TX_FEE_BUFFER_SATS)

\* build_mint_overrides returns before it asks for the outputs
OverridesDisabled(cfg) ==
    cfg.fee_recipient_address = "" \/ cfg.rune_op_return_hex = ""

\* build_mint_overrides from the answer of bitcoin_get_utxos on
MintOverridesOf(cfg, payment_address, ordinals_address, vault_address, vault_sats, utxo_response) ==
    LET ordinals_sats == IF cfg.ordinals_sats > 0 THEN cfg.ordinals_sats
                         ELSE DEFAULT_ORDINALS_SATS
        fee_sats == IF cfg.fee_recipient_sats > 0 THEN cfg.fee_recipient_sats
                    ELSE DEFAULT_FEE_SATS
        rune_hex == IF cfg.rune_op_return_hex = "" THEN DEFAULT_RUNE_HEX
                    ELSE cfg.rune_op_return_hex
        required == total_required(cfg, vault_sats)
    IN IF ~utxo_response.ok THEN Ok(None)
       ELSE IF utxo_response.val = <<>> THEN Ok(None)
       ELSE
         LET loop == select_loop(sort_by_value_vout(utxo_response.val),
                                 <<>>, 0, required)
             change_sats == saturating_sub(loop.sum, required)
             out1 == MapInsert(EmptyMap, "data", [hex |-> rune_hex])
             out2 == MapInsert(out1, ordinals_address,
                               [btc |-> sats_to_btc_float(ordinals_sats)])
             out3 == MapInsert(out2, cfg.fee_recipient_address,
                               [btc |-> sats_to_btc_float(fee_sats)])
             out4 == MapInsert(out3, vault_address,
                               [btc |-> sats_to_btc_float(vault_sats)])
             out5 == IF change_sats > 0
                     THEN MapInsert(out4, payment_address,
                                    [btc |-> sats_to_btc_float(change_sats)])
                     ELSE out4
         IN IF loop.sum < required THEN Ok(None)
            ELSE Ok(Some([ inputs |->
                             [i \in 1..Len(loop.selected) |->
                                [txid |-> txid_bytes_to_hex(loop.selected[i].txid),
                                 vout |-> loop.selected[i].vout]],
                           outputs_json |-> out5 ]))

build_mint_overrides(cfg, payment_address, ordinals_address, vault_address, vault_sats, utxo_response) ==
    IF OverridesDisabled(cfg) THEN Ok(None)
    ELSE MintOverridesOf(cfg, payment_address, ordinals_address,
                         vault_address, vault_sats, utxo_response)

(***************************************************************************)
(* The protocol key of a vault.                                            *)
(***************************************************************************)
\* u64::to_be_bytes: the n bytes of v, most significant first
RECURSIVE be_bytes(_, _)
be_bytes(v, n) ==
    IF n = 0 THEN <<>> ELSE Append(be_bytes(v \div 256, n - 1), v % 256)

\* the number a sequence of bytes is, most significant byte first
RECURSIVE BeValue(_)
BeValue(bytes) ==
    IF bytes = <<>> THEN 0
    ELSE BeValue(SubSeq(bytes, 1, Len(bytes) - 1)) * 256 + bytes[Len(bytes)]

to_be_bytes_low_byte(v) == <<0, 0, 0, 0, 0, 0, 0, v % 256>>

to_be_bytes(v) == be_bytes(v, 8)

protocol_derivation_path(vault_id) ==
    <<PROTOCOL_DOMAIN_LABEL, PROTOCOL_ROLE_LABEL, to_be_bytes(vault_id)>>

schnorr_key_id(st) ==
    [name |-> st.schnorr_key_name, algorithm |-> "bip340secp256k1"]

\* the arguments of the schnorr_public_key call of derive_protocol_key
SchnorrPublicKeyRequest(st, vault_id) ==
    [ method |-> "schnorr_public_key",
      derivation_path |-> protocol_derivation_path(vault_id),
      key_id |-> schnorr_key_id(st) ]

\* the arguments of the sign_with_schnorr call of sign_protocol_withdraw
SignWithSchnorrArgument(st, vault_id, msg_hash) ==
    [ method |-> "sign_with_schnorr",
      message |-> msg_hash,
      derivation_path |-> protocol_derivation_path(vault_id),
      key_id |-> schnorr_key_id(st) ]

\* the key the subnet holds for a key id and a derivation path of this
\* canister: schnorr_public_key returns it, sign_with_schnorr signs with it
SubnetKey(call) ==
    [key_id |-> call.key_id, derivation_path |-> call.derivation_path]

SchnorrKeyNames == {"dfx_test_key", "test_key_1", "key_1"}

\* a number for each key name the subnet knows
KeyNameSeed(name) ==
    IF name = "dfx_test_key" THEN 1 ELSE IF name = "test_key_1" THEN 2 ELSE 3

\* the x coordinate of SubnetKey(call): 32 bytes that differ between key
\* names and between vault ids
SubnetX(call) ==
    [i \in 1..X_ONLY_KEY_LEN |->
       ((KeyNameSeed(call.key_id.name) * (i + 16))
          + (BeValue(call.derivation_path[3]) * ((2 * i) + 1))) % 256]

\* answers of schnorr_public_key: a reject, or a public key of 32 bytes, of
\* 33 bytes with a first byte 0x02, 0x03 or 0x04, or of 0, 31 or 34 bytes
DeriveReplies ==
    {"reject", "len_32", "len_33_even", "len_33_odd", "len_33_other",
     "len_0", "len_31", "len_34"}

\* the answer of the given shape to `call`
SchnorrPublicKeyResponse(call, shape) ==
    LET x == SubnetX(call)
        chain_code == [i \in 1..32 |-> 7]
        public_key ==
            IF shape = "len_32" THEN x
            ELSE IF shape = "len_33_even" THEN <<2>> \o x
            ELSE IF shape = "len_33_odd" THEN <<3>> \o x
            ELSE IF shape = "len_33_other" THEN <<4>> \o x
            ELSE IF shape = "len_0" THEN <<>>
            ELSE IF shape = "len_31" THEN Tail(x)
            ELSE <<2, 3>> \o x
    IN IF shape = "reject" THEN Err("reject")
       ELSE Ok([public_key |-> public_key, chain_code |-> chain_code])

\* a conversion that drops the first of any 33 bytes
derive_protocol_key_any_prefix(vault_id, response) ==
    IF ~response.ok THEN Err("schnorr_public_key_error")
    ELSE LET raw == response.val.public_key
             pubkey == IF Len(raw) = COMPRESSED_KEY_LEN THEN Tail(raw) ELSE raw
         IN IF Len(pubkey) # X_ONLY_KEY_LEN
            THEN Err("invalid_protocol_pubkey_length")
            ELSE Ok([ vault_id |-> vault_id,
                      public_key |-> pubkey,
                      public_key_hex |-> Text(to_hex(pubkey)),
                      chain_code_hex |-> Text(to_hex(response.val.chain_code)) ])

\* derive_protocol_key from the answer of schnorr_public_key on; public_key
\* is the local pubkey that public_key_hex is the text of
derive_protocol_key(vault_id, response) ==
    IF ~response.ok THEN Err("schnorr_public_key_error")
    ELSE LET raw == response.val.public_key
             pubkey == IF Len(raw) = COMPRESSED_KEY_LEN /\ (raw[1] = 2 \/ raw[1] = 3)
                       THEN Tail(raw) ELSE raw
         IN IF Len(pubkey) # X_ONLY_KEY_LEN
            THEN Err("invalid_protocol_pubkey_length")
            ELSE Ok([ vault_id |-> vault_id,
                      public_key |-> pubkey,
                      public_key_hex |-> Text(to_hex(pubkey)),
                      chain_code_hex |-> Text(to_hex(response.val.chain_code)) ])

\* the schnorr_public_key calls the canister can make
SchnorrCalls ==
    { SchnorrPublicKeyRequest([schnorr_key_name |-> name], vault_id) :
        name \in SchnorrKeyNames, vault_id \in 0..U64Max }

\* the answers to every call, computed once
SchnorrPublicKeyResponseTable ==
    [ call \in SchnorrCalls, shape \in DeriveReplies |->
        SchnorrPublicKeyResponse(call, shape) ]

\* derive_protocol_key for every call and every answer, computed once
ProtocolKeyTable ==
    [ call \in SchnorrCalls, shape \in DeriveReplies |->
        derive_protocol_key(BeValue(call.derivation_path[3]),
                            SchnorrPublicKeyResponseTable[call, shape]) ]

\* protocol_key.public_key_hex of every vault
ProtocolKeyTexts ==
    { ProtocolKeyTable[call, "len_32"].val.public_key_hex : call \in SchnorrCalls }

\* arguments of set_protocol_keys: the default keys in upper case, the
\* default keys with the quorum keys exchanged, a blank guardian key, an
\* empty quorum key, and a guardian key that is no hex text
SetProtocolKeysInputs ==
    { [ guardian_internal_key |->
          "03B24F7AE21C41DF53BB95F138440C1B396404F1DA2AA824821720D223685ED7F1",
        vault_key_a |-> ProtocolKeysDefault.vault_key_a,
        vault_key_b |-> ProtocolKeysDefault.vault_key_b ],
      [ProtocolKeysDefault EXCEPT !.vault_key_a = ProtocolKeysDefault.vault_key_b,
                                  !.vault_key_b = ProtocolKeysDefault.vault_key_a],
      [ProtocolKeysDefault EXCEPT !.guardian_internal_key = " \t"],
      [ProtocolKeysDefault EXCEPT !.vault_key_b = ""],
      [ProtocolKeysDefault EXCEPT !.guardian_internal_key = "zz"] }

\* the keys set_protocol_keys stores for `keys`
StoredProtocolKeys(keys) ==
    [ guardian_internal_key |-> to_lowercase(keys.guardian_internal_key),
      vault_key_a |-> to_lowercase(keys.vault_key_a),
      vault_key_b |-> to_lowercase(keys.vault_key_b) ]

\* the values settings.protocol_keys can take
ProtocolKeyConfigs ==
    {ProtocolKeysDefault} \cup {StoredProtocolKeys(k) : k \in SetProtocolKeysInputs}

\* request.payment.public_key: a key, and a text that is none
UserKeys ==
    {"02abababababababababababababababababababababababababababababababab",
     "zz"}

\* more of them: a second key, x-only and in upper case
UserKeysWide ==
    UserKeys \cup {"1F1E1D1C1B1A191817161514131211100F0E0D0C0B0A09080706050403020100"}

\* derive_vault_address for every configuration, protocol key and user key,
\* computed once
VaultAddressTable ==
    [ keys_cfg \in ProtocolKeyConfigs, protocol \in ProtocolKeyTexts,
      user \in UserKeysWide |-> derive_vault_address(keys_cfg, protocol, user) ]

(***************************************************************************)
(* The pending store and the durable store.                                *)
(***************************************************************************)
PendingMintRecord(result, btc_price_usd, time) ==
    [ vault |-> result,
      btc_price_usd |-> btc_price_usd,
      mint_tokens |-> FIXED_MINT_TOKENS,
      mint_usd_cents |-> FIXED_MINT_USD_CENTS,
      created_at |-> time ]

store_pending_mint(store, result, btc_price_usd, time) ==
    IF ~canister_vaults_enabled THEN store
    ELSE MapInsert(store, result.vault_id,
                   PendingMintRecord(result, btc_price_usd, time))

\* the record removed (an Option) and the store after
take_pending_mint_keep(store, vault_id) ==
    IF ~canister_vaults_enabled THEN [record |-> None, store |-> store]
    ELSE IF vault_id \in DOMAIN store
         THEN [record |-> Some(store[vault_id]), store |-> store]
         ELSE [record |-> None, store |-> store]

\* a take that empties the store when it finds no record
take_pending_mint_clears_on_miss(store, vault_id) ==
    IF ~canister_vaults_enabled THEN [record |-> None, store |-> store]
    ELSE IF vault_id \in DOMAIN store
         THEN [record |-> Some(store[vault_id]),
               store |-> MapRemove(store, vault_id)]
         ELSE [record |-> None, store |-> EmptyMap]

take_pending_mint(store, vault_id) ==
    IF ~canister_vaults_enabled THEN [record |-> None, store |-> store]
    ELSE IF vault_id \in DOMAIN store
         THEN [record |-> Some(store[vault_id]),
               store |-> MapRemove(store, vault_id)]
         ELSE [record |-> None, store |-> store]

restore_pending_mint_dropped(store, record) == store

restore_pending_mint(store, record) ==
    IF ~canister_vaults_enabled THEN store
    ELSE MapInsert(store, record.vault.vault_id, record)

StoredVaultRecord(pending, txid, settings) ==
    [ vault_id |-> pending.vault.vault_id,
      descriptor |-> pending.vault.descriptor,
      created_at |-> pending.created_at,
      txid |-> Some(txid),
      withdraw_txid |-> None,
      confirmations |-> 0,
      min_confirmations |-> DEFAULT_MIN_CONFIRMATIONS,
      withdrawable |-> FALSE,
      mint_tokens |-> Some(pending.mint_tokens),
      mint_usd_cents |-> Some(pending.mint_usd_cents),
      collateral_ratio_bps |-> Some(settings.collateral_ratio_bps),
      last_btc_price_usd |-> Some(pending.btc_price_usd),
      health |-> Some("pending") ]

persist_finalized_vault(store, pending, txid, settings) ==
    IF ~canister_vaults_enabled THEN store
    ELSE MapInsert(store, pending.vault.vault_id,
                   StoredVaultRecord(pending, txid, settings))

(***************************************************************************)
(* Upgrade: pre_upgrade saves (settings, vaults, pending); post_upgrade    *)
(* starts from a fresh heap and tries the layouts newest first.            *)
(***************************************************************************)
pre_upgrade(cfg, vaults, pending) ==
    [layout |-> "triple", cfg |-> cfg, vaults |-> vaults, pending |-> pending]

FreshHeap ==
    [settings |-> SettingsDefault, vaults |-> EmptyMap, pending |-> EmptyMap]

post_upgrade_drops_vaults(stable) ==
    IF stable.layout = "triple"
    THEN [settings |-> stable.cfg, vaults |-> EmptyMap, pending |-> stable.pending]
    ELSE FreshHeap

\* a restore that reads the pending map of no layout
post_upgrade_drops_pending(stable) ==
    IF stable.layout \in {"triple", "pair"}
    THEN [FreshHeap EXCEPT !.settings = stable.cfg, !.vaults = stable.vaults]
    ELSE IF stable.layout = "single"
    THEN [FreshHeap EXCEPT !.settings = stable.cfg]
    ELSE IF stable.layout = "legacy"
    THEN [FreshHeap EXCEPT
            !.settings = [SettingsDefault EXCEPT
                            !.backend_base_url = stable.backend]]
    ELSE FreshHeap

post_upgrade(stable) ==
    IF stable.layout = "triple"
    THEN [settings |-> stable.cfg, vaults |-> stable.vaults,
          pending |-> stable.pending]
    ELSE IF stable.layout = "pair"
    THEN [FreshHeap EXCEPT !.settings = stable.cfg, !.vaults = stable.vaults]
    ELSE IF stable.layout = "single"
    THEN [FreshHeap EXCEPT !.settings = stable.cfg]
    ELSE IF stable.layout = "legacy"
    THEN [FreshHeap EXCEPT
            !.settings = [SettingsDefault EXCEPT
                            !.backend_base_url = stable.backend]]
    ELSE FreshHeap

\* what stable memory can hold when this code is installed: nothing (a fresh
\* install, init runs), or the image an earlier layout's pre_upgrade left
InstallImages ==
    { [layout |-> "none"],
      [layout |-> "legacy", backend |-> "https://backend"],
      [layout |-> "single",
       cfg |-> [SettingsDefault EXCEPT !.backend_base_url = "https://backend",
                                       !.xrc_canister_id = Some("xrc")]],
      [layout |-> "pair",
       cfg |-> [SettingsDefault EXCEPT !.xrc_canister_id = Some("xrc")],
       vaults |-> EmptyMap] }

(***************************************************************************)
(* Invocations.                                                            *)
(***************************************************************************)
\* the fields of the settings clone an invocation reads after its first await
SettingsRead(st) ==
    [ backend_base_url |-> st.backend_base_url,
      ordinals_sats |-> st.ordinals_sats,
      fee_recipient_sats |-> st.fee_recipient_sats,
      fee_recipient_address |-> st.fee_recipient_address,
      rune_op_return_hex |-> st.rune_op_return_hex,
      collateral_ratio_bps |-> st.collateral_ratio_bps,
      collateral_usd_cents |-> st.collateral_usd_cents,
      protocol_keys |-> st.protocol_keys ]

IdleSlot ==
    [ op |-> "none", pc |-> "idle",
      req_vault_id |-> "",       \* FinalizeMintRequest.vault_id
      vault_id |-> 0,            \* build_psbt: let vault_id = next_vault_id()
      settings |-> SettingsRead(SettingsDefault), \* let settings = SETTINGS...clone()
      price_used |-> 0,          \* build_psbt: let mut price_used
      user_override_vault |-> None, \* build_psbt: let user_override_vault
      vault_sats |-> 0,          \* build_psbt: let vault_sats_final
      derive_call |-> None,      \* derive_protocol_key: let arg
      call |-> None,             \* the management canister call awaited
      protocol_key |-> None,     \* let protocol_key / let derived
      user_key |-> "",           \* request.payment.public_key
      vault_address |-> "",      \* build_psbt: let vault_address
      msg_hash |-> <<>>,         \* sign_protocol_withdraw: msg_hash
      utxo_response |-> None,    \* build_mint_overrides: let utxo_response
      override_payload |-> None, \* build_psbt: let override_payload
      pending |-> None,          \* finalize_mint: let pending = take_pending_mint
      txid_value |-> "",         \* finalize_mint: let txid_value
      payload |-> None,          \* finalize_withdraw: let mut payload
      response |-> None,         \* finalize_withdraw: let mut response
      attempt |-> 0 ]            \* backend_http_request: let mut attempt

\* the invocation of slot i returns `result`
Return(i, op, req_vault_id, result) ==
    inv' = [inv EXCEPT ![i] = IdleSlot]

\* a new invocation takes the first free slot
FirstIdle(i) ==
    /\ inv[i].pc = "idle"
    /\ \A j \in Procs : inv[j].pc = "idle" => ~(j < i)

Holds(i) == inv[i].pc \in {"f_http", "f_send"}

\* op: "reserve" (store_pending_mint), "take" (take_pending_mint returned the
\* record), "take_none" (it returned None), "restore" (restore_pending_mint)
\* rec: the record stored, returned or re-inserted (an Option); prev, prev_rec:
\* the operation on the key before this one
LogOp(log, k, op, rec) ==
    MapInsert(log, k,
              [op |-> op, rec |-> rec,
               prev |-> IF k \in DOMAIN log THEN log[k].op ELSE "none",
               prev_rec |-> IF k \in DOMAIN log THEN log[k].rec ELSE None])

\* no pure function under evaluation
CalcIdle == [fn |-> "none"]

\* the canister after it was installed over the stable memory `image`
InitCanister(image) ==
    /\ LET heap == post_upgrade(image) IN
         /\ SETTINGS = heap.settings
         /\ VAULTS = heap.vaults
         /\ PENDING_MINTS = heap.pending
    /\ now = 0
    /\ inv = [i \in Procs |-> IdleSlot]
    /\ builds = 0
    /\ finalizes = 0
    /\ broadcasts = 0
    /\ savedVaults = {}
    /\ issued = [last |-> 0, max_before |-> 0]
    /\ mintCount = EmptyMap
    /\ lastPendingOp = EmptyMap
    /\ signs = 0

Init ==
    /\ \E image \in InstallImages : InitCanister(image)
    /\ calc = CalcIdle

\* the clock advances
Tick ==
    /\ \E t \in ClockReadings : t > now /\ now' = t
    /\ UNCHANGED <<SETTINGS, VAULTS, PENDING_MINTS, inv, builds, finalizes,
                   broadcasts, savedVaults, issued, mintCount,
                   lastPendingOp,
                   signs, calc>>

BackendUrls == {"https://backend", "http://backend"}

StartsWithHttps(url) == url = "https://backend"

set_backend_config(base_url) ==
    /\ IF ~StartsWithHttps(base_url)
       THEN UNCHANGED SETTINGS    \* ic_cdk::trap
       ELSE SETTINGS' = [SETTINGS EXCEPT !.backend_base_url = base_url]
    /\ UNCHANGED <<VAULTS, PENDING_MINTS, now, inv, builds, finalizes,
                   broadcasts, savedVaults, issued, mintCount,
                   lastPendingOp,
                   signs, calc>>

set_xrc_config ==
    /\ SETTINGS' = [SETTINGS EXCEPT !.xrc_canister_id = Some("xrc")]
    /\ UNCHANGED <<VAULTS, PENDING_MINTS, now, inv, builds, finalizes,
                   broadcasts, savedVaults, issued, mintCount,
                   lastPendingOp,
                   signs, calc>>

\* an upgrade of a stopped canister: pre_upgrade, a fresh heap, post_upgrade
Upgrade ==
    /\ \A i \in Procs : inv[i].pc = "idle"
    /\ savedVaults' = DOMAIN VAULTS
    /\ LET heap == post_upgrade(pre_upgrade(SETTINGS, VAULTS, PENDING_MINTS)) IN
         /\ SETTINGS' = heap.settings
         /\ VAULTS' = heap.vaults
         /\ PENDING_MINTS' = heap.pending
    /\ UNCHANGED <<now, inv, builds, finalizes, broadcasts, issued,
                   mintCount, lastPendingOp,
                   signs, calc>>

(***************************************************************************)
(* build_psbt.                                                             *)
(***************************************************************************)
\* the invocation of slot i goes on to its next await point
Await(i, slot) ==
    inv' = [inv EXCEPT ![i] = slot]

\* answers of the exchange rate canister; xrc_btc_usd_price turns a call
\* error, an error variant and a price <= 0 into Err (prices in cents)
XrcReplies == {"reject", "xrc_returned_error", "rate_0", "rate_5000000"}

xrc_btc_usd_price(reply) ==
    IF reply = "rate_5000000" THEN Some(5000000) ELSE None

\* what the backend puts into result.vaultId of its answer to the request
\* that carried `sent`
BackendVaultIds(sent) == {sent, to_string(1)}

\* str::contains
contains(str, pat) ==
    \E k \in 0..(Len(str) - Len(pat)) : SubSeq(str, k + 1, k + Len(pat)) = pat

\* str::to_ascii_lowercase
to_ascii_lowercase(str) == to_lowercase(str)

\* a test that looks for the word as it is spelled
should_retry_backend_exact_case(code, msg) ==
    \/ code \in {"SysFatal", "SysTransient"}
    \/ contains(msg, "timeout")

should_retry_backend(code, msg) ==
    \/ code \in {"SysFatal", "SysTransient"}
    \/ contains(to_ascii_lowercase(msg), "timeout")

\* Err((code, msg)) of http_request: a rejection of each kind the test
\* tells apart
HttpRejects ==
    { [kind |-> "reject", code |-> "SysTransient", msg |-> "connection refused"],
      [kind |-> "reject", code |-> "CanisterReject", msg |-> "connection refused"] }

\* more of them: the other code that is retried, and messages that name a
\* timeout in lower case, capitalised, in capitals, or in two words
HttpRejectsWide ==
    HttpRejects \cup
    { [kind |-> "reject", code |-> "SysFatal", msg |-> "canister trapped"],
      [kind |-> "reject", code |-> "DestinationInvalid", msg |-> "no such canister"],
      [kind |-> "reject", code |-> "CanisterError", msg |-> "request timeout"],
      [kind |-> "reject", code |-> "CanisterReject", msg |-> "Timeout expired"],
      [kind |-> "reject", code |-> "Unknown", msg |-> "TIMEOUT"],
      [kind |-> "reject", code |-> "CanisterReject", msg |-> "timed out"] }

\* should_retry_backend of every rejection, computed once
ShouldRetryTable ==
    [reject \in HttpRejectsWide |-> should_retry_backend(reject.code, reject.msg)]

\* Ok((resp,)) of http_request that the callers refuse: a status >= 400 and
\* a body that is not the JSON they expect
HttpFailures == HttpRejects \cup {[kind |-> "status_400"], [kind |-> "bad_json"]}

BuildHttpReplies(sent) ==
    HttpFailures
      \cup {[kind |-> "ok", vault_id |-> e] : e \in BackendVaultIds(sent)}

\* BackendMintResult -> MintResult of the answer to the request for `sent`
MintResult(echo, sent) ==
    [ vault_id |-> echo,          \* result.vaultId as the backend wrote it
      descriptor |-> "tr-for-" \o sent ]

\* should_retry_backend and the attempt counter of backend_http_request
RetriesBackend(slot, reply) ==
    /\ reply.kind = "reject"
    /\ ~(slot.attempt >= BACKEND_HTTP_MAX_RETRIES \/ ~ShouldRetryTable[reply])

\* a selection that knows no fallback price
selected_vault_sats_no_fallback(price, user_override_vault, settings) ==
    IF price.some
    THEN Some(compute_target_collateral_sats(F64FromCents(price.val),
                                             settings.collateral_ratio_bps,
                                             settings.collateral_usd_cents))
    ELSE user_override_vault

\* a selection that lets the request's vault_sats go before the live price
selected_vault_sats_override_first(price, user_override_vault, settings) ==
    IF user_override_vault.some
    THEN Some(user_override_vault.val)
    ELSE IF price.some
    THEN Some(compute_target_collateral_sats(F64FromCents(price.val),
                                             settings.collateral_ratio_bps,
                                             settings.collateral_usd_cents))
    ELSE Some(compute_target_collateral_sats(
                  F64FromCents(COLLATERAL_FALLBACK_PRICE_USD),
                  settings.collateral_ratio_bps,
                  settings.collateral_usd_cents))

\* let selected_vault_sats: the live price, else the request's vault_sats,
\* else the fallback price
selected_vault_sats(price, user_override_vault, settings) ==
    IF price.some
    THEN Some(compute_target_collateral_sats(F64FromCents(price.val),
                                             settings.collateral_ratio_bps,
                                             settings.collateral_usd_cents))
    ELSE IF user_override_vault.some
    THEN Some(user_override_vault.val)
    ELSE Some(compute_target_collateral_sats(
                  F64FromCents(COLLATERAL_FALLBACK_PRICE_USD),
                  settings.collateral_ratio_bps,
                  settings.collateral_usd_cents))

\* from the price match to the schnorr_public_key call of derive_protocol_key
BuildAllocate(i, slot, price) ==
    LET selected == selected_vault_sats(price, slot.user_override_vault,
                                        slot.settings)
        alloc == next_vault_id(SETTINGS, now)
        arg == SchnorrPublicKeyRequest(alloc.settings, alloc.id)
    IN IF ~selected.some
       THEN /\ Return(i, "build_psbt", "", "vault_sats_unavailable")
            /\ UNCHANGED <<SETTINGS, issued>>
       ELSE /\ SETTINGS' = alloc.settings
            /\ issued' = [last |-> alloc.id,
                          max_before |-> Max(issued.last, issued.max_before)]
            /\ Await(i, [slot EXCEPT !.pc = "b_derive",
                                     !.vault_id = alloc.id,
                                     !.vault_sats = selected.val,
                                     !.derive_call = Some(arg),
                                     !.call = Some(arg),
                                     !.price_used =
                                         IF price.some THEN price.val
                                         ELSE COLLATERAL_FALLBACK_PRICE_USD])

\* vault_sats: request.amounts.vault_sats
BuildStart(i, vault_sats) ==
    /\ FirstIdle(i)
    /\ builds < MaxBuilds
    /\ builds' = builds + 1
    /\ LET slot == [IdleSlot EXCEPT !.op = "build_psbt",
                                    !.user_override_vault = vault_sats,
                                    !.settings = SettingsRead(SETTINGS)] IN
         IF slot.settings.backend_base_url = ""
         THEN /\ Return(i, "build_psbt", "", "backend_not_configured")
              /\ UNCHANGED <<SETTINGS, issued>>
         ELSE IF SETTINGS.xrc_canister_id = None
         THEN BuildAllocate(i, slot, None)      \* xrc_not_configured, no await
         ELSE /\ Await(i, [slot EXCEPT !.pc = "b_xrc"])
              /\ UNCHANGED <<SETTINGS, issued>>
    /\ UNCHANGED <<VAULTS, PENDING_MINTS, now, finalizes, broadcasts,
                   savedVaults, mintCount, lastPendingOp,
                   signs, calc>>

BuildXrcReply(i, reply) ==
    /\ inv[i].pc = "b_xrc"
    /\ BuildAllocate(i, inv[i], xrc_btc_usd_price(reply))
    /\ UNCHANGED <<VAULTS, PENDING_MINTS, now, builds, finalizes, broadcasts,
                   savedVaults, mintCount, lastPendingOp,
                   signs, calc>>

\* request.payment.address, request.ordinals.address
PaymentAddress == "tb1qpay"
OrdinalsAddress == "tb1pord"

\* the fields of BackendBuildPsbtRequest that build_psbt computes
BackendBuildPsbtRequest(slot) ==
    [ vault_id |-> to_string(slot.vault_id),
      amounts_vault_sats |-> Some(slot.vault_sats),
      protocol_public_key |-> slot.protocol_key,
      inputs_override |->
          IF slot.override_payload.some
          THEN Some(slot.override_payload.val.inputs) ELSE None,
      outputs_override_json |->
          IF slot.override_payload.some
          THEN Some(slot.override_payload.val.outputs_json) ELSE None ]

\* a build that gives up when it has no override payload
BuildSend_requires_payload(i, slot, body_ok) ==
    IF ~body_ok \/ ~slot.override_payload.some
    THEN Return(i, "build_psbt", "", "insufficient_funds")
    ELSE Await(i, [slot EXCEPT !.pc = "b_http", !.attempt = 0, !.call = None])

\* from the override payload to the backend request
BuildSend(i, slot, body_ok) ==
    IF ~body_ok
    THEN Return(i, "build_psbt", "", "serialize_error")
    ELSE Await(i, [slot EXCEPT !.pc = "b_http", !.attempt = 0, !.call = None])

\* the schnorr_public_key reply, derive_vault_address (user_key:
\* request.payment.public_key), build_mint_overrides up to its
\* bitcoin_get_utxos call; with no fee recipient configured there is no
\* override and no call
BuildDeriveReply(i, reply, user_key, body_ok) ==
    /\ inv[i].pc = "b_derive"
    /\ LET protocol_key == ProtocolKeyTable[inv[i].call.val, reply]
       IN IF ~protocol_key.ok
          THEN Return(i, "build_psbt", "", protocol_key.err)
          ELSE LET vault_address ==
                       VaultAddressTable[inv[i].settings.protocol_keys,
                                         protocol_key.val.public_key_hex,
                                         user_key]
               IN IF ~vault_address.ok
                  THEN Return(i, "build_psbt", "", vault_address.err)
                  ELSE LET slot == [inv[i] EXCEPT
                                      !.protocol_key =
                                          Some(SubnetKey(inv[i].call.val)),
                                      !.user_key = user_key,
                                      !.vault_address = vault_address.val]
                       IN IF OverridesDisabled(slot.settings)
                          THEN BuildSend(i, slot, body_ok)
                          ELSE Await(i, [slot EXCEPT !.pc = "b_utxos",
                                                     !.call = None])
    /\ UNCHANGED <<SETTINGS, VAULTS, PENDING_MINTS, now, builds, finalizes,
                   broadcasts, savedVaults, issued, mintCount,
                   lastPendingOp,
                   signs, calc>>

\* the bitcoin_get_utxos reply, the rest of build_mint_overrides, the
\* request body
BuildUtxosReply(i, reply, body_ok) ==
    /\ inv[i].pc = "b_utxos"
    /\ LET slot == inv[i]
           payload == build_mint_overrides(slot.settings, PaymentAddress,
                                           OrdinalsAddress,
                                           slot.vault_address,
                                           slot.vault_sats, reply)
       IN BuildSend(i, [slot EXCEPT
                          !.utxo_response = Some(reply),
                          !.override_payload =
                              IF payload.ok THEN payload.val ELSE None],
                    body_ok)
    /\ UNCHANGED <<SETTINGS, VAULTS, PENDING_MINTS, now, builds, finalizes,
                   broadcasts, savedVaults, issued, mintCount,
                   lastPendingOp,
                   signs, calc>>

\* store_pending_mint(&mint_response.result, price_used); Ok(mint_response)
BuildStore(i, result) ==
    LET store == store_pending_mint(PENDING_MINTS, result, inv[i].price_used, now) IN
      /\ PENDING_MINTS' = store
      /\ lastPendingOp' = LogOp(lastPendingOp, result.vault_id, "reserve",
                                Some(store[result.vault_id]))
      /\ Return(i, "build_psbt", "", "ok")

BuildHttpReply(i, reply) ==
    /\ inv[i].pc = "b_http"
    /\ IF reply.kind # "ok"
       THEN /\ IF RetriesBackend(inv[i], reply)
               THEN Await(i, [inv[i] EXCEPT !.attempt = @ + 1])
               ELSE IF reply.kind = "reject"
               THEN Return(i, "build_psbt", "", "http_request_error")
               ELSE IF reply.kind = "status_400"
               THEN Return(i, "build_psbt", "", "backend_responded_with_status")
               ELSE Return(i, "build_psbt", "", "invalid_backend_json")
            /\ UNCHANGED <<PENDING_MINTS, lastPendingOp>>
       ELSE BuildStore(i, MintResult(reply.vault_id, to_string(inv[i].vault_id)))
    /\ UNCHANGED <<SETTINGS, VAULTS, now, builds, finalizes, broadcasts,
                   savedVaults, issued, mintCount,
                   signs, calc>>

(***************************************************************************)
(* finalize_mint.                                                          *)
(***************************************************************************)
\* FinalizeMintRequest.vault_id: a key of either store, a key an invocation
\* holds the record of, an id no build was given, or the empty string
RequestVaultIds ==
    (DOMAIN PENDING_MINTS) \cup (DOMAIN VAULTS)
      \cup {inv[j].req_vault_id : j \in {p \in Procs : Holds(p)}}
      \cup {to_string(0), ""}

\* BackendFinalizeMintResponse: txid present or not, hex decodable or not
FinalizeHttpReplies ==
    HttpFailures
      \cup {[kind |-> "ok", txid |-> t, hex_ok |-> h] :
              t \in {None, Some("txid-backend")}, h \in BOOLEAN}

\* txid_from_raw_hex(hex).ok()
txid_from_raw_hex(hex_ok) == IF hex_ok THEN Some("txid-sha256d") ELSE None

SendReplies == {"ok", "reject"}

\* restore_pending_mint(pending); return Err(..)
FinalizeFail(i, result) ==
    LET record == inv[i].pending.val IN
      /\ PENDING_MINTS' = restore_pending_mint(PENDING_MINTS, record)
      /\ lastPendingOp' = LogOp(lastPendingOp, record.vault.vault_id,
                                "restore", Some(record))
      /\ Return(i, "finalize_mint", inv[i].req_vault_id, result)

FinalizeStart(i, vault_id, body_ok) ==
    /\ FirstIdle(i)
    /\ finalizes < MaxFinalizes
    /\ finalizes' = finalizes + 1
    /\ LET settings == SettingsRead(SETTINGS)
           taken == take_pending_mint(PENDING_MINTS, vault_id)
       IN IF ~canister_vaults_enabled
          THEN /\ Return(i, "finalize_mint", vault_id, "vault_storage_disabled")
               /\ UNCHANGED <<PENDING_MINTS, lastPendingOp>>
          ELSE IF TrimIsEmpty(vault_id)
          THEN /\ Return(i, "finalize_mint", vault_id, "missing_vault_id")
               /\ UNCHANGED <<PENDING_MINTS, lastPendingOp>>
          ELSE IF settings.backend_base_url = ""
          THEN /\ Return(i, "finalize_mint", vault_id, "backend_not_configured")
               /\ UNCHANGED <<PENDING_MINTS, lastPendingOp>>
          ELSE IF ~taken.record.some
          THEN /\ Return(i, "finalize_mint", vault_id, "vault_not_pending")
               /\ lastPendingOp' = LogOp(lastPendingOp, vault_id, "take_none", None)
               /\ PENDING_MINTS' = taken.store
          ELSE /\ PENDING_MINTS' = taken.store
               /\ lastPendingOp' = LogOp(lastPendingOp, vault_id, "take",
                                         taken.record)
               /\ IF ~body_ok      \* serde_json::to_vec(&body).map_err(..)?
                  THEN Return(i, "finalize_mint", vault_id, "serialize_error")
                  ELSE Await(i, [IdleSlot EXCEPT !.op = "finalize_mint",
                                                 !.pc = "f_http",
                                                 !.req_vault_id = vault_id,
                                                 !.settings = settings,
                                                 !.pending = taken.record])
    /\ UNCHANGED <<SETTINGS, VAULTS, now, builds, broadcasts, savedVaults,
                   issued, mintCount,
                   signs, calc>>

FinalizeHttpReply(i, reply) ==
    /\ inv[i].pc = "f_http"
    /\ IF RetriesBackend(inv[i], reply)
       THEN /\ Await(i, [inv[i] EXCEPT !.attempt = @ + 1])
            /\ UNCHANGED <<PENDING_MINTS, lastPendingOp>>
       ELSE IF reply.kind = "reject"
       THEN FinalizeFail(i, "http_request_error")
       ELSE IF reply.kind = "status_400"
       THEN FinalizeFail(i, "backend_responded_with_status")
       ELSE IF reply.kind = "bad_json"
       THEN FinalizeFail(i, "invalid_backend_json")
       ELSE LET txid_value == IF reply.txid.some THEN reply.txid
                              ELSE txid_from_raw_hex(reply.hex_ok)
            IN IF ~txid_value.some
               THEN FinalizeFail(i, "txid_unavailable")
               ELSE IF ~reply.hex_ok
               THEN FinalizeFail(i, "invalid_hex_from_backend")
               ELSE /\ Await(i, [inv[i] EXCEPT !.pc = "f_send",
                                               !.txid_value = txid_value.val])
                    /\ UNCHANGED <<PENDING_MINTS, lastPendingOp>>
    /\ UNCHANGED <<SETTINGS, VAULTS, now, builds, finalizes, broadcasts,
                   savedVaults, issued, mintCount,
                   signs, calc>>

\* bitcoin_send_transaction answered Ok: persist_finalized_vault, return Ok
FinalizeSendOk(i) ==
    LET pending == inv[i].pending.val
        key == pending.vault.vault_id
    IN /\ VAULTS' = persist_finalized_vault(VAULTS, pending, inv[i].txid_value,
                                            inv[i].settings)
       /\ mintCount' = MapInsert(mintCount, key,
                          IF key \in DOMAIN mintCount THEN mintCount[key] + 1
                          ELSE 1)
       /\ Return(i, "finalize_mint", inv[i].req_vault_id, "ok")
       /\ UNCHANGED <<PENDING_MINTS, lastPendingOp>>

FinalizeSendErr_persists(i) == FinalizeSendOk(i)

\* bitcoin_send_transaction answered Err: restore, return Err
FinalizeSendErr(i) ==
    /\ FinalizeFail(i, "bitcoin_send_transaction")
    /\ UNCHANGED <<VAULTS, mintCount>>

FinalizeSendReply(i, reply) ==
    /\ inv[i].pc = "f_send"
    /\ IF reply = "ok"
       THEN /\ broadcasts' = broadcasts + 1
            /\ FinalizeSendOk(i)
       ELSE /\ UNCHANGED broadcasts
            /\ FinalizeSendErr(i)
    /\ UNCHANGED <<SETTINGS, now, builds, finalizes, savedVaults, issued,
                   signs, calc>>

(***************************************************************************)
(* The canister.                                                           *)
(***************************************************************************)
Next ==
    \/ Tick
    \/ \E url \in BackendUrls : set_backend_config(url)
    \/ set_xrc_config
    \/ Upgrade
    \/ \E i \in Procs : BuildStart(i, None)
    \/ \E i \in Procs, reply \in XrcReplies : BuildXrcReply(i, reply)
    \/ \E i \in Procs, reply \in DeriveReplies, user_key \in UserKeys,
          body_ok \in BOOLEAN :
         BuildDeriveReply(i, reply, user_key, body_ok)
    \/ \E i \in Procs :
         \E reply \in BuildHttpReplies(to_string(inv[i].vault_id)) :
           BuildHttpReply(i, reply)
    \/ \E i \in Procs, body_ok \in BOOLEAN :
         \E vault_id \in RequestVaultIds : FinalizeStart(i, vault_id, body_ok)
    \/ \E i \in Procs, reply \in FinalizeHttpReplies : FinalizeHttpReply(i, reply)
    \/ \E i \in Procs, reply \in SendReplies : FinalizeSendReply(i, reply)

Spec == Init /\ [][Next]_vars

(***************************************************************************)
(* The pure functions, each applied to inputs drawn from bounded sets.     *)
(***************************************************************************)
canisterVars ==
    <<SETTINGS, VAULTS, PENDING_MINTS, now, inv, builds, finalizes,
      broadcasts, savedVaults, issued, mintCount, lastPendingOp, signs>>

\* vault ids with one, two, three and four significant bytes
PathIds == {0, 1, 255, 256, 257, 65535, 65536, 16777216, 2147483647}

\* prices in cents: 0.50, 1, 3, 100, 50000 and the fallback price
PriceCents == {50, 100, 300, 10000, 5000000, COLLATERAL_FALLBACK_PRICE_USD}
RatioBps == {0, 10000, 13000, 15000, 65535}
UsdCents == (0 .. MaxUsdCents) \cup {SettingsDefault.collateral_usd_cents}

PathInputs == {[kind |-> "path", vault_id |-> v] : v \in PathIds}

CollateralInputs ==
    {[kind |-> "collateral", price_cents |-> c, ratio_bps |-> r,
      usd_cents |-> u] : c \in PriceCents, r \in RatioBps, u \in UsdCents}

\* 32-byte values: constant bytes, a counting pattern, and values whose
\* first byte is one of the compressed-key prefixes
KeyValues ==
    { [i \in 1..X_ONLY_KEY_LEN |-> 0],
      [i \in 1..X_ONLY_KEY_LEN |-> 255],
      [i \in 1..X_ONLY_KEY_LEN |-> (i * 37) % 256],
      [i \in 1..X_ONLY_KEY_LEN |-> IF i = 1 THEN 2 ELSE 171],
      [i \in 1..X_ONLY_KEY_LEN |-> IF i = 1 THEN 3 ELSE 16 + i] }

\* the encodings of a key: x-only, or compressed with either parity byte
KeyEncodings == {"x_only", "even", "odd", "uncompressed_tag"}

EncodeKey(x, encoding) ==
    IF encoding = "x_only" THEN x
    ELSE IF encoding = "even" THEN <<2>> \o x
    ELSE IF encoding = "odd" THEN <<3>> \o x
    ELSE <<4>> \o x

\* the text of a key: lower or upper case digits, bare or with whitespace
\* around it, or cut short by one character
KeyTexts == {"lower", "upper", "padded", "cut"}

KeyText(bytes, text) ==
    IF text = "lower" THEN to_hex(bytes)
    ELSE IF text = "upper" THEN to_hex_upper(bytes)
    ELSE IF text = "padded" THEN <<" ">> \o to_hex(bytes) \o <<"\n">>
    ELSE Tail(to_hex(bytes))

KeyInputs ==
    {[kind |-> "key", x |-> x, encoding |-> e, text |-> t] :
       x \in KeyValues, e \in KeyEncodings, t \in KeyTexts}

\* outputs of the funding address: two of equal value, one that covers
\* the smallest requirement alone, one that covers a sized collateral
UtxoPool ==
    { [txid |-> <<1, 160>>, vout |-> 0, value |-> 1000],
      [txid |-> <<2, 176>>, vout |-> 1, value |-> 1000],
      [txid |-> <<3, 192>>, vout |-> 0, value |-> 2000],
      [txid |-> <<4, 208>>, vout |-> 0, value |-> 6000],
      [txid |-> <<5, 224>>, vout |-> 2, value |-> 30000] }

\* lists of distinct outputs, in any order
UtxoLists ==
    { l \in UNION {[1..n -> UtxoPool] : n \in 0..MaxUtxos} :
        \A i, j \in DOMAIN l : i # j => l[i] # l[j] }

\* answers of bitcoin_get_utxos
UtxoReplies == {Err("reject")} \cup {Ok(l) : l \in UtxoLists}

\* fee settings as set_fee_config stores them
FeeConfigs ==
    { [ordinals_sats |-> o, fee_recipient_sats |-> 0,
       fee_recipient_address |-> a, rune_op_return_hex |-> "6a5d00"] :
        o \in {0, 546}, a \in {"", "tb1qfee"} }

\* collateral: a user override, the fallback sizing, the largest u64
VaultSats == {1000, 25811, SatsMax}

OverrideInputs ==
    {[kind |-> "overrides", cfg |-> c, vault_sats |-> v, utxo_response |-> r] :
       c \in FeeConfigs, v \in VaultSats, r \in UtxoReplies}

\* pairs of keys for a two-key leaf
MultiAInputs ==
    {[kind |-> "multi_a", k0 |-> a, k1 |-> b] : a, b \in KeyValues}

\* pairs of 32-byte hashes
BranchInputs ==
    {[kind |-> "branch", left |-> a, right |-> b] : a, b \in KeyValues}

\* two keys: x values 02 ab .. ab and 03 11 12 ..
DeriveKeys ==
    { [i \in 1..X_ONLY_KEY_LEN |-> IF i = 1 THEN 2 ELSE 171],
      [i \in 1..X_ONLY_KEY_LEN |-> IF i = 1 THEN 3 ELSE 16 + i] }

\* well-formed texts of the keys: x-only in lower case, compressed in upper
\* case, compressed with whitespace around it
GoodKeyTexts ==
    UNION { { Text(to_hex(x)),
              Text(to_hex_upper(<<3>> \o x)),
              Text(<<" ">> \o to_hex(<<2>> \o x) \o <<"\n">>) } : x \in DeriveKeys }

\* malformed texts: no text, not hex digits, an odd number of digits,
\* 31 and 34 bytes, and 33 bytes that start with 0x04 or 0x00
BadKeyTexts ==
    { "", "zz",
      Text(Tail(to_hex([i \in 1..X_ONLY_KEY_LEN |-> 171]))),
      Text(to_hex([i \in 1..31 |-> 171])),
      Text(to_hex([i \in 1..34 |-> 2])),
      Text(to_hex(<<4>> \o [i \in 1..X_ONLY_KEY_LEN |-> 171])),
      Text(to_hex(<<0>> \o [i \in 1..X_ONLY_KEY_LEN |-> 171])),
      "02" \o Text(to_hex([i \in 1..31 |-> 171])) \o "g0" }

RequestKeyTexts == GoodKeyTexts \cup BadKeyTexts

\* protocol keys the settings can hold: the defaults, the defaults with the
\* quorum keys exchanged, a guardian key that is no point of the curve, and
\* texts that are no keys
KeyConfigs ==
    { ProtocolKeysDefault,
      [ProtocolKeysDefault EXCEPT !.vault_key_a = ProtocolKeysDefault.vault_key_b,
                                  !.vault_key_b = ProtocolKeysDefault.vault_key_a],
      [ProtocolKeysDefault EXCEPT !.guardian_internal_key =
          ProtocolKeysDefault.vault_key_a],
      [ProtocolKeysDefault EXCEPT !.guardian_internal_key = "zz"],
      [ProtocolKeysDefault EXCEPT !.vault_key_b = "02ab"] }

DeriveInputs ==
    {[kind |-> "derive", keys_cfg |-> c, protocol |-> p, user |-> u] :
       c \in KeyConfigs, p \in RequestKeyTexts, u \in RequestKeyTexts}

\* every threshold a u8 holds
ScriptNumInputs == {[kind |-> "script_num", value |-> v] : v \in 0..255}

CalcInputs ==
    PathInputs \cup CollateralInputs \cup KeyInputs \cup OverrideInputs
      \cup ScriptNumInputs \cup MultiAInputs \cup BranchInputs \cup DeriveInputs

InitCalc ==
    /\ InitCanister([layout |-> "none"])
    /\ calc \in {[fn |-> "input", args |-> a] : a \in CalcInputs}

Apply(fn, out) ==
    /\ calc' = [fn |-> fn, args |-> calc.args, out |-> out]
    /\ UNCHANGED canisterVars

CalcDerivationPath ==
    /\ calc.fn = "input" /\ calc.args.kind = "path"
    /\ Apply("protocol_derivation_path",
             protocol_derivation_path(calc.args.vault_id))

CalcCollateral ==
    /\ calc.fn = "input" /\ calc.args.kind = "collateral"
    /\ Apply("compute_target_collateral_sats",
             compute_target_collateral_sats(F64FromCents(calc.args.price_cents),
                                            calc.args.ratio_bps,
                                            calc.args.usd_cents))

CalcParseKey ==
    /\ calc.fn = "input" /\ calc.args.kind = "key"
    /\ Apply("parse_x_only_key",
             parse_x_only_key(KeyText(EncodeKey(calc.args.x, calc.args.encoding),
                                      calc.args.text)))

CalcOverrides ==
    /\ calc.fn = "input" /\ calc.args.kind = "overrides"
    /\ Apply("build_mint_overrides",
             build_mint_overrides(calc.args.cfg, "tb1qpay", "tb1pord",
                                  "tb1pvault", calc.args.vault_sats,
                                  calc.args.utxo_response))

CalcScriptNum ==
    /\ calc.fn = "input" /\ calc.args.kind = "script_num"
    /\ Apply("encode_script_num", encode_script_num(calc.args.value))

CalcMultiA ==
    /\ calc.fn = "input" /\ calc.args.kind = "multi_a"
    /\ Apply("multi_a_script",
             multi_a_script(<<calc.args.k0, calc.args.k1>>, 2))

CalcTapBranch ==
    /\ calc.fn = "input" /\ calc.args.kind = "branch"
    /\ Apply("tap_branch_hash",
             tap_branch_hash(calc.args.left, calc.args.right))

CalcDeriveVaultAddress ==
    /\ calc.fn = "input" /\ calc.args.kind = "derive"
    /\ Apply("derive_vault_address",
             DeriveVaultAddressSteps(calc.args.keys_cfg, calc.args.protocol,
                                     calc.args.user))

NextCalc ==
    \/ CalcOverrides
    \/ CalcScriptNum
    \/ CalcMultiA
    \/ CalcTapBranch
    \/ CalcDeriveVaultAddress
    \/ CalcDerivationPath
    \/ CalcCollateral
    \/ CalcParseKey

SpecCalc == InitCalc /\ [][NextCalc]_vars

(***************************************************************************)
(* build_psbt with the fee settings: collateral sizing and the overrides.  *)
(***************************************************************************)
set_fee_config(ordinals_sats, fee_recipient_sats, fee_recipient_address, rune_op_return_hex) ==
    /\ SETTINGS' = [SETTINGS EXCEPT
                      !.ordinals_sats = ordinals_sats,
                      !.fee_recipient_sats = fee_recipient_sats,
                      !.fee_recipient_address = fee_recipient_address,
                      !.rune_op_return_hex = to_lowercase(rune_op_return_hex)]
    /\ UNCHANGED <<VAULTS, PENDING_MINTS, now, inv, builds, finalizes,
                   broadcasts, savedVaults, issued, mintCount, lastPendingOp,
                   signs, calc>>

\* request.amounts.vault_sats
VaultSatsOverrides == {None, Some(1000)}

\* answers of bitcoin_get_utxos to build_psbt: a reject, no output, outputs
\* that do not cover the requirement, outputs that do
BuildUtxoReplies ==
    { Err("reject"), Ok(<<>>),
      Ok(<<[txid |-> <<1, 160>>, vout |-> 0, value |-> 1000]>>),
      Ok(<<[txid |-> <<4, 208>>, vout |-> 0, value |-> 6000],
           [txid |-> <<1, 160>>, vout |-> 0, value |-> 1000]>>),
      Ok(<<[txid |-> <<5, 224>>, vout |-> 2, value |-> 30000],
           [txid |-> <<3, 192>>, vout |-> 0, value |-> 2000]>>) }

\* arguments of set_fee_config: default amounts, an ordinals amount, and
\* no fee recipient
FeeConfigCalls ==
    { <<0, 0, "tb1qfee", "6A5D00">>, <<546, 0, "tb1qfee", "6A5D00">>,
      <<0, 0, "", "6A5D00">> }

\* the canister is installed with a backend, with or without a price feed
InitBuild ==
    /\ \E image \in {m \in InstallImages : m.layout \in {"legacy", "single"}} :
         InitCanister(image)
    /\ calc = CalcIdle

NextBuild ==
    \/ \E c \in FeeConfigCalls : set_fee_config(c[1], c[2], c[3], c[4])
    \/ \E i \in Procs, vault_sats \in VaultSatsOverrides : BuildStart(i, vault_sats)
    \/ \E i \in Procs, reply \in XrcReplies : BuildXrcReply(i, reply)
    \/ \E i \in Procs, reply \in DeriveReplies, user_key \in UserKeys,
          body_ok \in BOOLEAN :
         BuildDeriveReply(i, reply, user_key, body_ok)
    \/ \E i \in Procs, reply \in BuildUtxoReplies, body_ok \in BOOLEAN :
         BuildUtxosReply(i, reply, body_ok)
    \/ \E i \in Procs :
         \E reply \in BuildHttpReplies(to_string(inv[i].vault_id)) :
           BuildHttpReply(i, reply)

SpecBuild == InitBuild /\ [][NextBuild]_vars

(***************************************************************************)
(* sign_withdraw and the signer key.                                       *)
(***************************************************************************)
\* name.trim() on the names the model draws
TrimName(name) == IF name = " key_1 " THEN "key_1" ELSE name

set_schnorr_key(name) ==
    /\ IF TrimName(name) \in SchnorrKeyNames
       THEN SETTINGS' = [SETTINGS EXCEPT !.schnorr_key_name = TrimName(name)]
       ELSE UNCHANGED SETTINGS    \* Err("unsupported_schnorr_key")
    /\ UNCHANGED <<VAULTS, PENDING_MINTS, now, inv, builds, finalizes,
                   broadcasts, savedVaults, issued, mintCount, lastPendingOp,
                   signs, calc>>

\* WithdrawSignRequest.vault_id
SignVaultIds == {to_string(1), "+1", to_string(2), "x", ""}

\* str::parse::<u64> on the texts the model draws: an optional plus sign,
\* then decimal digits
parse_u64(text) ==
    IF text = "+1" THEN Ok(1)
    ELSE IF \E n \in 0..U64Max : to_string(n) = text
    THEN Ok(CHOOSE n \in 0..U64Max : to_string(n) = text)
    ELSE Err("invalid_vault_id")

DecimalDigits == Chars("0123456789")

\* the byte of an ASCII letter or digit
AsciiCode(ch) ==
    IF \E k \in 1..10 : DecimalDigits[k] = ch
    THEN 47 + (CHOOSE k \in 1..10 : DecimalDigits[k] = ch)
    ELSE IF \E k \in 1..26 : UpperCase[k] = ch
    THEN 64 + (CHOOSE k \in 1..26 : UpperCase[k] = ch)
    ELSE 96 + (CHOOSE k \in 1..26 : LowerCase[k] = ch)

\* str::as_bytes of a text of ASCII letters and digits
as_bytes(chars) == [i \in 1..Len(chars) |-> AsciiCode(chars[i])]

\* the character of a byte below 0x80: letters and digits as themselves,
\* every other byte as a character that is neither
AsciiChar(byte) ==
    IF byte \in 48..57 THEN DecimalDigits[byte - 47]
    ELSE IF byte \in 65..90 THEN UpperCase[byte - 64]
    ELSE IF byte \in 97..122 THEN LowerCase[byte - 96]
    ELSE "."

\* std::str::from_utf8 on ASCII and on bytes that no UTF-8 text holds (0xFF
\* is the one the model draws)
from_utf8(bytes) ==
    IF \A i \in 1..Len(bytes) : bytes[i] < 128
    THEN Ok([i \in 1..Len(bytes) |-> AsciiChar(bytes[i])])
    ELSE Err("invalid_utf8")

decode_digest(bytes, field) ==
    IF Len(bytes) = 32 THEN Ok(bytes)
    ELSE IF Len(bytes) = 64
    THEN LET as_str == from_utf8(bytes) IN
           IF ~as_str.ok THEN Err(field \o "_invalid_utf8")
           ELSE LET decoded == from_hex(as_str.val) IN
                  IF ~decoded.ok THEN decoded
                  ELSE IF Len(decoded.val) # 32
                  THEN Err(field \o "_invalid_length")
                  ELSE Ok(decoded.val)
    ELSE Err(field \o "_invalid_length")

\* sign_withdraw up to the call of sign_protocol_withdraw: its arguments
sign_withdraw_arguments(request) ==
    LET vault_id == parse_u64(request.vault_id)
        sighash == decode_digest(request.sighash, "sighash")
    IN IF ~vault_id.ok THEN vault_id
       ELSE IF Len(request.tapleaf_hash) # 32
       THEN Err("invalid_tapleaf_hash_length")
       ELSE IF /\ request.merkle_root.some
               /\ request.merkle_root.val # <<>>
               /\ Len(request.merkle_root.val) # 32
       THEN Err("invalid_merkle_root_length")
       ELSE IF ~sighash.ok THEN sighash
       ELSE Ok([vault_id |-> vault_id.val, sighash |-> sighash.val])

\* 32-byte values
Digest1 == [i \in 1..32 |-> i]
Digest2 == [i \in 1..32 |-> 255 - i]

\* WithdrawSignRequest: a well-formed request for every vault id text, and
\* for each field a request in which it is one byte short
WithdrawSignRequests ==
    LET good == [tapleaf_hash |-> Digest2, merkle_root |-> Some(Digest2),
                 sighash |-> Digest1]
    IN { [vault_id |-> v, tapleaf_hash |-> r.tapleaf_hash,
          merkle_root |-> r.merkle_root, sighash |-> r.sighash] :
           v \in SignVaultIds,
           r \in { good,
                   [good EXCEPT !.tapleaf_hash = Tail(Digest2)],
                   [good EXCEPT !.merkle_root = Some(Tail(Digest2))],
                   [good EXCEPT !.sighash = Tail(Digest1)] } }

\* more of them, for vault 1: no merkle root and an empty one, a second
\* digest, a digest as 64 hex characters, 64 bytes that are no hex text or
\* no text, and fields that are empty or a byte too long
WithdrawSignRequestsWide ==
    LET good == [vault_id |-> to_string(1), tapleaf_hash |-> Digest2,
                 merkle_root |-> None, sighash |-> Digest1]
    IN WithdrawSignRequests \cup
       { good,
         [good EXCEPT !.merkle_root = Some(<<>>)],
         [good EXCEPT !.sighash = Digest2],
         [good EXCEPT !.sighash = as_bytes(to_hex(Digest2))],
         [good EXCEPT !.sighash = [i \in 1..64 |-> 122]],
         [good EXCEPT !.sighash = [i \in 1..64 |-> 255]],
         [good EXCEPT !.sighash = <<>>],
         [good EXCEPT !.sighash = Digest1 \o <<0>>],
         [good EXCEPT !.tapleaf_hash = <<>>],
         [good EXCEPT !.tapleaf_hash = Digest2 \o <<0>>],
         [good EXCEPT !.merkle_root = Some(Digest2 \o <<0>>)] }

\* sign_withdraw_arguments of every request, computed once
SignArgumentsTable ==
    [request \in WithdrawSignRequestsWide |-> sign_withdraw_arguments(request)]

\* sign_withdraw up to the schnorr_public_key call of sign_protocol_withdraw
SignStart(i, request) ==
    /\ FirstIdle(i)
    /\ signs < MaxSigns
    /\ signs' = signs + 1
    /\ LET arguments == SignArgumentsTable[request] IN
         IF ~arguments.ok
         THEN Return(i, "sign_withdraw", request.vault_id, arguments.err)
         ELSE LET arg == SchnorrPublicKeyRequest(SETTINGS, arguments.val.vault_id) IN
                Await(i, [IdleSlot EXCEPT !.op = "sign_withdraw",
                                          !.pc = "s_derive",
                                          !.req_vault_id = request.vault_id,
                                          !.vault_id = arguments.val.vault_id,
                                          !.msg_hash = arguments.val.sighash,
                                          !.derive_call = Some(arg),
                                          !.call = Some(arg)])
    /\ UNCHANGED <<SETTINGS, VAULTS, PENDING_MINTS, now, builds, finalizes,
                   broadcasts, savedVaults, issued, mintCount, lastPendingOp,
                   calc>>

\* the schnorr_public_key reply and the sign_with_schnorr call
SignDeriveReply(i, reply) ==
    /\ inv[i].pc = "s_derive"
    /\ LET derived == ProtocolKeyTable[inv[i].call.val, reply]
       IN IF ~derived.ok
          THEN Return(i, "sign_withdraw", inv[i].req_vault_id, derived.err)
          ELSE Await(i, [inv[i] EXCEPT
                           !.pc = "s_sign",
                           !.protocol_key = Some(SubnetKey(inv[i].call.val)),
                           !.call = Some(SignWithSchnorrArgument(
                                             SETTINGS, inv[i].vault_id,
                                             inv[i].msg_hash))])
    /\ UNCHANGED <<SETTINGS, VAULTS, PENDING_MINTS, now, builds, finalizes,
                   broadcasts, savedVaults, issued, mintCount, lastPendingOp,
                   signs, calc>>

\* answers of sign_with_schnorr: a reject, or a signature of 64 bytes, of
\* one byte less or more, or of none
SignReplies == {"reject", "len_64", "len_63", "len_65", "len_0"}

\* the answer of the given shape to `call`: bytes that depend on the key
\* and on the message
SignWithSchnorrResponse(call, shape) ==
    LET n == IF shape = "len_64" THEN 64 ELSE IF shape = "len_63" THEN 63
             ELSE IF shape = "len_65" THEN 65 ELSE 0
    IN IF shape = "reject" THEN Err("reject")
       ELSE Ok([signature |->
                  [k \in 1..n |-> (call.message[((k - 1) % Len(call.message)) + 1]
                                     + KeyNameSeed(call.key_id.name) + k) % 256]])

\* a check that lets every signature through
sign_protocol_withdraw_any_length(response) ==
    IF ~response.ok THEN Err("sign_with_schnorr_error")
    ELSE Ok(response.val.signature)

\* sign_protocol_withdraw from the answer of sign_with_schnorr on
sign_protocol_withdraw(response) ==
    IF ~response.ok THEN Err("sign_with_schnorr_error")
    ELSE IF Len(response.val.signature) # 64
    THEN Err("invalid_protocol_signature_length")
    ELSE Ok(response.val.signature)

\* the result of sign_withdraw after the answer `reply`
SignResult(slot, reply) ==
    sign_protocol_withdraw(SignWithSchnorrResponse(slot.call.val, reply))

SignReply(i, reply) ==
    /\ inv[i].pc = "s_sign"
    /\ Return(i, "sign_withdraw", inv[i].req_vault_id, SignResult(inv[i], reply))
    /\ UNCHANGED <<SETTINGS, VAULTS, PENDING_MINTS, now, builds, finalizes,
                   broadcasts, savedVaults, issued, mintCount, lastPendingOp,
                   signs, calc>>

InitSigner == InitBuild

NextSigner ==
    \/ \E name \in SchnorrKeyNames \cup {" key_1 ", "bogus"} : set_schnorr_key(name)
    \/ \E i \in Procs : BuildStart(i, None)
    \/ \E i \in Procs, reply \in XrcReplies : BuildXrcReply(i, reply)
    \/ \E i \in Procs, reply \in DeriveReplies, user_key \in UserKeys,
          body_ok \in BOOLEAN :
         BuildDeriveReply(i, reply, user_key, body_ok)
    \/ \E i \in Procs :
         \E reply \in BuildHttpReplies(to_string(inv[i].vault_id)) :
           BuildHttpReply(i, reply)
    \/ \E i \in Procs, request \in WithdrawSignRequests : SignStart(i, request)
    \/ \E i \in Procs, reply \in DeriveReplies : SignDeriveReply(i, reply)
    \/ \E i \in Procs, reply \in SignReplies : SignReply(i, reply)

SpecSigner == InitSigner /\ [][NextSigner]_vars

\* sign_withdraw alone, with the key name changing
NextSign ==
    \/ \E name \in SchnorrKeyNames : set_schnorr_key(name)
    \/ \E i \in Procs, request \in WithdrawSignRequestsWide : SignStart(i, request)
    \/ \E i \in Procs, reply \in DeriveReplies : SignDeriveReply(i, reply)
    \/ \E i \in Procs, reply \in SignReplies : SignReply(i, reply)

SpecSign == InitSigner /\ [][NextSign]_vars

(***************************************************************************)
(* set_protocol_keys and the vault address.                                *)
(***************************************************************************)
\* key.trim().is_empty()
IsBlank(str) == trim(Chars(str)) = <<>>

\* keys: guardian_internal_key, vault_key_a, vault_key_b
set_protocol_keys(keys) ==
    /\ IF \/ IsBlank(keys.guardian_internal_key)
          \/ IsBlank(keys.vault_key_a)
          \/ IsBlank(keys.vault_key_b)
       THEN UNCHANGED SETTINGS    \* ic_cdk::trap
       ELSE SETTINGS' = [SETTINGS EXCEPT !.protocol_keys = StoredProtocolKeys(keys)]
    /\ UNCHANGED <<VAULTS, PENDING_MINTS, now, inv, builds, finalizes,
                   broadcasts, savedVaults, issued, mintCount, lastPendingOp,
                   signs, calc>>

InitKeys == InitBuild

NextKeys ==
    \/ \E keys \in SetProtocolKeysInputs : set_protocol_keys(keys)
    \/ \E i \in Procs : BuildStart(i, None)
    \/ \E i \in Procs, reply \in XrcReplies : BuildXrcReply(i, reply)
    \/ \E i \in Procs, reply \in DeriveReplies, user_key \in UserKeysWide,
          body_ok \in BOOLEAN :
         BuildDeriveReply(i, reply, user_key, body_ok)
    \/ \E i \in Procs :
         \E reply \in BuildHttpReplies(to_string(inv[i].vault_id)) :
           BuildHttpReply(i, reply)

SpecKeys == InitKeys /\ [][NextKeys]_vars

(***************************************************************************)
(* backend_http_request and finalize_withdraw.                             *)
(***************************************************************************)
\* a conversion that takes a slice of any length
to_array_32_any_length(bytes) == Ok(bytes)

to_array_32(bytes) ==
    IF Len(bytes) = 32 THEN Ok(bytes) ELSE Err("expected_32_byte_value")

\* one pass of the loop of backend_http_request on the answer `reply` to
\* its request number attempt + 1: the value it returns, or the next pass
backend_http_request(attempt, reply) ==
    IF reply.kind # "reject"
    THEN [next |-> "return", result |-> Ok(reply)]
    ELSE IF attempt >= BACKEND_HTTP_MAX_RETRIES \/ ~ShouldRetryTable[reply]
    THEN [next |-> "return",
          result |-> Err("http_request error " \o reply.code \o ": " \o reply.msg)]
    ELSE [next |-> "continue", attempt |-> attempt + 1]

\* prompt.sighash as the backend may write it: two digests, one in upper
\* case, 31 and 33 bytes, an odd number of digits, no hex digits, nothing
SighashTexts ==
    { to_hex(Digest1), to_hex(Digest2), to_hex_upper(Digest1),
      to_hex(Tail(Digest1)), to_hex(Digest1 \o <<0>>), Tail(to_hex(Digest1)),
      [i \in 1..64 |-> "z"], <<>> }

\* BackendWithdrawSignatureRequired
WithdrawPrompts ==
    { [vault_id |-> v, sighash |-> h, merkle_root |-> ""] :
        v \in {to_string(1), "x"}, h \in SighashTexts }
      \cup { [vault_id |-> to_string(1), sighash |-> to_hex(Digest1),
              merkle_root |-> "ab"] }

\* BackendWithdrawFinalizeSuccess: hex that decodes and hex that does not
WithdrawSuccesses ==
    { [vault_id |-> to_string(1), hex |-> h, txid |-> Some("txid-backend")] :
        h \in {to_hex(<<2, 0, 171>>), Chars("0x02")} }

\* the JSON body of a backend response: the fields of a signature prompt,
\* those of a success, or neither
WithdrawBodies ==
    { [prompt |-> Some(p), success |-> None] : p \in WithdrawPrompts }
      \cup { [prompt |-> None, success |-> Some(s)] : s \in WithdrawSuccesses }
      \cup { [prompt |-> None, success |-> None] }

\* Ok((resp,)) of http_request for /withdraw/finalize
WithdrawResponses ==
    { [kind |-> "response", status |-> 202, body |-> b] :
        b \in {w \in WithdrawBodies : ~w.success.some} }
      \cup { [kind |-> "response", status |-> 200, body |-> b] :
               b \in {w \in WithdrawBodies : ~w.prompt.some} }
      \cup { [kind |-> "response", status |-> 200,
              body |-> [prompt |-> Some(p), success |-> None]] :
               p \in {q \in WithdrawPrompts : q.merkle_root # ""} }
      \cup { [kind |-> "response", status |-> 202,
              body |-> [prompt |-> None, success |-> Some(s)]] :
               s \in {t \in WithdrawSuccesses : from_hex(t.hex).ok} }
      \cup { [kind |-> "response", status |-> 500,
              body |-> [prompt |-> None, success |-> None]] }

WithdrawHttpReplies == HttpRejectsWide \cup WithdrawResponses

\* serde_json::from_slice::<BackendWithdrawSignatureRequired>
from_slice_prompt(body) ==
    IF body.prompt.some THEN Ok(body.prompt.val) ELSE Err("invalid backend json")

\* serde_json::from_slice::<BackendWithdrawFinalizeSuccess>
from_slice_success(body) ==
    IF body.success.some THEN Ok(body.success.val) ELSE Err("invalid backend json")

\* hex::decode
hex_decode(hex) ==
    IF from_hex(hex).ok THEN from_hex(hex) ELSE Err("invalid_hex_from_backend")

\* finalize_withdraw from a 202 response up to the call of
\* sign_protocol_withdraw: its arguments
withdraw_sign_arguments(response) ==
    LET prompt == from_slice_prompt(response.body) IN
      IF ~prompt.ok THEN prompt
      ELSE LET vault_numeric == parse_u64(prompt.val.vault_id)
               sighash_vec == from_hex(prompt.val.sighash)
           IN IF ~vault_numeric.ok THEN vault_numeric
              ELSE IF ~sighash_vec.ok THEN sighash_vec
              ELSE IF ~to_array_32(sighash_vec.val).ok
              THEN to_array_32(sighash_vec.val)
              ELSE Ok([vault_numeric |-> vault_numeric.val,
                       sighash |-> sighash_vec.val])

\* finalize_withdraw from the last response to bitcoin_send_transaction:
\* the transaction to send
withdraw_transaction(response) ==
    IF response.status >= 400 THEN Err("backend responded with status")
    ELSE LET parsed == from_slice_success(response.body) IN
           IF ~parsed.ok THEN parsed
           ELSE LET tx_bytes == hex_decode(parsed.val.hex) IN
                  IF ~tx_bytes.ok THEN tx_bytes
                  ELSE Ok([transaction |-> tx_bytes.val, parsed |-> parsed.val])

WithdrawArgumentsTable ==
    [response \in WithdrawResponses |-> withdraw_sign_arguments(response)]

WithdrawTransactionTable ==
    [response \in WithdrawResponses |-> withdraw_transaction(response)]

\* WithdrawFinalizeRequest
WithdrawFinalizeRequests ==
    { [vault_id |-> v, signed_psbt |-> "cHNidP8B", broadcast |-> None] :
        v \in {to_string(1), to_string(2)} }

\* finalize_withdraw up to its first backend_http_request
WithdrawStart(i, request) ==
    /\ FirstIdle(i)
    /\ finalizes < MaxFinalizes
    /\ finalizes' = finalizes + 1
    /\ LET settings == SettingsRead(SETTINGS) IN
         IF settings.backend_base_url = ""
         THEN Return(i, "finalize_withdraw", request.vault_id, Err("backend_not_configured"))
         ELSE Await(i, [IdleSlot EXCEPT
                          !.op = "finalize_withdraw",
                          !.pc = "w_http",
                          !.req_vault_id = request.vault_id,
                          !.settings = settings,
                          !.payload = Some([vaultId |-> request.vault_id,
                                            psbt |-> request.signed_psbt,
                                            broadcast |-> FALSE,
                                            protocolSignature |-> None]),
                          !.attempt = 0])
    /\ UNCHANGED <<SETTINGS, VAULTS, PENDING_MINTS, now, builds,
                   broadcasts, savedVaults, issued, mintCount, lastPendingOp,
                   signs, calc>>

\* finalize_withdraw after its last response: the checks of the response,
\* then bitcoin_send_transaction
WithdrawFinish(i, response) ==
    LET tx == WithdrawTransactionTable[response] IN
      IF ~tx.ok
      THEN Return(i, "finalize_withdraw", inv[i].req_vault_id, tx)
      ELSE Await(i, [inv[i] EXCEPT !.pc = "w_send",
                                   !.response = Some(response),
                                   !.call = Some([method |-> "bitcoin_send_transaction",
                                                  transaction |-> tx.val.transaction])])

\* an answer to the first request
WithdrawHttpReply(i, reply) ==
    /\ inv[i].pc = "w_http"
    /\ LET pass == backend_http_request(inv[i].attempt, reply) IN
         IF pass.next = "continue"
         THEN Await(i, [inv[i] EXCEPT !.attempt = pass.attempt])
         ELSE IF ~pass.result.ok
         THEN Return(i, "finalize_withdraw", inv[i].req_vault_id, pass.result)
         ELSE IF reply.status = 202
         THEN LET arguments == WithdrawArgumentsTable[reply] IN
                IF ~arguments.ok
                THEN Return(i, "finalize_withdraw", inv[i].req_vault_id, arguments)
                ELSE LET arg == SchnorrPublicKeyRequest(SETTINGS,
                                                        arguments.val.vault_numeric)
                     IN Await(i, [inv[i] EXCEPT
                                    !.pc = "w_derive",
                                    !.response = Some(reply),
                                    !.vault_id = arguments.val.vault_numeric,
                                    !.msg_hash = arguments.val.sighash,
                                    !.derive_call = Some(arg),
                                    !.call = Some(arg)])
         ELSE WithdrawFinish(i, reply)
    /\ UNCHANGED <<SETTINGS, VAULTS, PENDING_MINTS, now, builds, finalizes,
                   broadcasts, savedVaults, issued, mintCount, lastPendingOp,
                   signs, calc>>

\* sign_protocol_withdraw: the schnorr_public_key reply and the
\* sign_with_schnorr call
WithdrawDeriveReply(i, reply) ==
    /\ inv[i].pc = "w_derive"
    /\ LET derived == ProtocolKeyTable[inv[i].call.val, reply]
       IN IF ~derived.ok
          THEN Return(i, "finalize_withdraw", inv[i].req_vault_id, derived)
          ELSE Await(i, [inv[i] EXCEPT
                           !.pc = "w_sign",
                           !.protocol_key = Some(SubnetKey(inv[i].call.val)),
                           !.call = Some(SignWithSchnorrArgument(
                                             SETTINGS, inv[i].vault_id,
                                             inv[i].msg_hash))])
    /\ UNCHANGED <<SETTINGS, VAULTS, PENDING_MINTS, now, builds, finalizes,
                   broadcasts, savedVaults, issued, mintCount, lastPendingOp,
                   signs, calc>>

\* the sign_with_schnorr reply, the signature put into the payload and the
\* second backend_http_request
WithdrawSignReply(i, reply) ==
    /\ inv[i].pc = "w_sign"
    /\ LET signature == SignResult(inv[i], reply) IN
         IF ~signature.ok
         THEN Return(i, "finalize_withdraw", inv[i].req_vault_id, signature)
         ELSE Await(i, [inv[i] EXCEPT
                          !.pc = "w_resubmit",
                          !.payload = Some([@.val EXCEPT !.protocolSignature =
                                                Some(to_hex(signature.val))]),
                          !.call = None,
                          !.attempt = 0])
    /\ UNCHANGED <<SETTINGS, VAULTS, PENDING_MINTS, now, builds, finalizes,
                   broadcasts, savedVaults, issued, mintCount, lastPendingOp,
                   signs, calc>>

\* an answer to the second request
WithdrawResubmitReply(i, reply) ==
    /\ inv[i].pc = "w_resubmit"
    /\ LET pass == backend_http_request(inv[i].attempt, reply) IN
         IF pass.next = "continue"
         THEN Await(i, [inv[i] EXCEPT !.attempt = pass.attempt])
         ELSE IF ~pass.result.ok
         THEN Return(i, "finalize_withdraw", inv[i].req_vault_id, pass.result)
         ELSE WithdrawFinish(i, reply)
    /\ UNCHANGED <<SETTINGS, VAULTS, PENDING_MINTS, now, builds, finalizes,
                   broadcasts, savedVaults, issued, mintCount, lastPendingOp,
                   signs, calc>>

\* the answer of bitcoin_send_transaction
WithdrawSendReply(i, reply) ==
    /\ inv[i].pc = "w_send"
    /\ IF reply = "ok"
       THEN /\ broadcasts' = broadcasts + 1
            /\ Return(i, "finalize_withdraw", inv[i].req_vault_id,
                      Ok(inv[i].response.val.body.success.val))
       ELSE /\ UNCHANGED broadcasts
            /\ Return(i, "finalize_withdraw", inv[i].req_vault_id,
                      Err("bitcoin_send_transaction_failed"))
    /\ UNCHANGED <<SETTINGS, VAULTS, PENDING_MINTS, now, builds, finalizes,
                   savedVaults, issued, mintCount, lastPendingOp,
                   signs, calc>>

InitWithdraw == InitBuild

NextWithdraw ==
    \/ \E i \in Procs, request \in WithdrawFinalizeRequests : WithdrawStart(i, request)
    \/ \E i \in Procs, reply \in WithdrawHttpReplies : WithdrawHttpReply(i, reply)
    \/ \E i \in Procs, reply \in DeriveReplies : WithdrawDeriveReply(i, reply)
    \/ \E i \in Procs, reply \in SignReplies : WithdrawSignReply(i, reply)
    \/ \E i \in Procs, reply \in WithdrawHttpReplies : WithdrawResubmitReply(i, reply)
    \/ \E i \in Procs, reply \in SendReplies : WithdrawSendReply(i, reply)

SpecWithdraw == InitWithdraw /\ [][NextWithdraw]_vars

(***************************************************************************)
(* xrc_btc_usd_price on the answer of the exchange rate canister, and      *)
(* get_collateral_preview.  A price is a float of the software format, or  *)
(* one of the two values of f64 that format does not hold: +inf and NaN.   *)
(***************************************************************************)
Finite(v) == [class |-> "finite", v |-> v]

\* a u32 in two halves of 16 bits
U32(hi, lo) == [hi |-> hi, lo |-> lo]

\* 10f64.powi(decimals as i32): the product of |decimals| factors, or its
\* reciprocal when the cast gives a negative number; beyond 10^308 the
\* product is +inf and its reciprocal 0.  The powers the model computes are
\* those up to 10^9.
powi10(decimals) ==
    IF decimals.hi < 32768
    THEN IF decimals.hi > 0 \/ decimals.lo > 308 THEN [class |-> "inf"]
         ELSE Finite(F64FromInt(10 ^ decimals.lo))
    ELSE IF decimals.hi < 65535 \/ 65536 - decimals.lo > 308
    THEN Finite(F64Zero)
    ELSE Finite(F64Div(F64FromInt(1), F64FromInt(10 ^ (65536 - decimals.lo))))

\* (rate.rate as f64) / 10f64.powi(rate.metadata.decimals as i32)
rate_price(rate) ==
    LET pow == powi10(rate.decimals) IN
      IF pow.class = "inf" THEN Finite(F64Zero)
      ELSE IF pow.v.m = 0
      THEN IF rate.rate = 0 THEN [class |-> "nan"] ELSE [class |-> "inf"]
      ELSE Finite(F64Div(F64FromInt(rate.rate), pow.v))

\* price <= 0.0: false for a NaN
F64LeqZero(price) == price.class = "finite" /\ price.v.m = 0

\* XrcExchangeRate: rate and metadata.decimals.  50,000.00 and the fallback
\* price in cents, 0, 7 with no decimals, 1 with 9 decimals, 3 and 0 with
\* decimals = u32::MAX (-1 as i32), 1 with 400 decimals, and 0 and 1 with
\* decimals = 2^31 (i32::MIN)
XrcRates ==
    { [rate |-> 5000000, decimals |-> U32(0, 2)],
      [rate |-> COLLATERAL_FALLBACK_PRICE_USD, decimals |-> U32(0, 2)],
      [rate |-> 0, decimals |-> U32(0, 2)],
      [rate |-> 7, decimals |-> U32(0, 0)],
      [rate |-> 1, decimals |-> U32(0, 9)],
      [rate |-> 3, decimals |-> U32(65535, 65535)],
      [rate |-> 0, decimals |-> U32(65535, 65535)],
      [rate |-> 1, decimals |-> U32(0, 400)],
      [rate |-> 0, decimals |-> U32(32768, 0)],
      [rate |-> 1, decimals |-> U32(32768, 0)] }

\* the outcome of the get_exchange_rate call: a reject, the Err variant, or
\* the Ok variant with a rate
XrcAnswers ==
    { [kind |-> "reject"], [kind |-> "Err"] }
      \cup { [kind |-> "Ok", rate |-> r] : r \in XrcRates }

\* xrc_btc_usd_price from the outcome of its call on
xrc_btc_usd_price_match(answer) ==
    IF answer.kind = "reject" THEN Err("xrc_call_error")
    ELSE IF answer.kind = "Err" THEN Err("xrc_returned_error")
    ELSE LET price == rate_price(answer.rate) IN
           IF F64LeqZero(price) THEN Err("price_unavailable") ELSE Ok(price)

\* compute_target_collateral_sats for a price that may be no number: a
\* quotient by +inf is 0, and NaN as u64 is 0
compute_target_collateral_sats_f64(price, ratio_bps, usd_cents) ==
    IF price.class = "finite"
    THEN compute_target_collateral_sats(price.v, ratio_bps, usd_cents)
    ELSE 0

\* a preview that tells the fallback by the price it returns
collateral_preview_flag_by_price(xrc, st) ==
    LET fallback == Finite(F64FromCents(COLLATERAL_FALLBACK_PRICE_USD))
        price == IF xrc.ok THEN xrc.val ELSE fallback
    IN [ price |-> price,
         sats |-> compute_target_collateral_sats_f64(
                      price, st.collateral_ratio_bps, st.collateral_usd_cents),
         ratio_bps |-> st.collateral_ratio_bps,
         usd_cents |-> st.collateral_usd_cents,
         using_fallback_price |-> price = fallback ]

\* CollateralPreview from the result of xrc_btc_usd_price and SETTINGS
collateral_preview(xrc, st) ==
    LET price == IF xrc.ok THEN xrc.val
                 ELSE Finite(F64FromCents(COLLATERAL_FALLBACK_PRICE_USD))
    IN [ price |-> price,
         sats |-> compute_target_collateral_sats_f64(
                      price, st.collateral_ratio_bps, st.collateral_usd_cents),
         ratio_bps |-> st.collateral_ratio_bps,
         usd_cents |-> st.collateral_usd_cents,
         using_fallback_price |-> ~xrc.ok ]

set_collateral_params(ratio_bps, usd_cents) ==
    /\ SETTINGS' = [SETTINGS EXCEPT !.collateral_ratio_bps = ratio_bps,
                                    !.collateral_usd_cents = usd_cents]
    /\ UNCHANGED <<VAULTS, PENDING_MINTS, now, inv, builds, finalizes,
                   broadcasts, savedVaults, issued, mintCount, lastPendingOp,
                   signs, calc>>

\* the preview get_collateral_preview returns, kept in `calc` with the
\* answer it came from
PreviewReturn(answer, xrc) ==
    calc' = [ fn |-> "get_collateral_preview",
              args |-> [answer |-> answer],
              out |-> Ok(collateral_preview(xrc, SETTINGS)) ]

\* get_collateral_preview up to the get_exchange_rate call; with no
\* exchange rate canister configured there is no call
PreviewStart(i) ==
    /\ FirstIdle(i)
    /\ IF SETTINGS.xrc_canister_id = None
       THEN /\ PreviewReturn([kind |-> "xrc_not_configured"],
                             Err("xrc_not_configured"))
            /\ Return(i, "get_collateral_preview", "", calc')
       ELSE /\ Await(i, [IdleSlot EXCEPT !.op = "get_collateral_preview",
                                         !.pc = "p_xrc"])
            /\ UNCHANGED calc
    /\ UNCHANGED <<SETTINGS, VAULTS, PENDING_MINTS, now, builds, finalizes,
                   broadcasts, savedVaults, issued, mintCount, lastPendingOp,
                   signs>>

\* the answer of the exchange rate canister and the rest of
\* get_collateral_preview
PreviewXrcReply(i, answer) ==
    /\ inv[i].pc = "p_xrc"
    /\ PreviewReturn(answer, xrc_btc_usd_price_match(answer))
    /\ Return(i, "get_collateral_preview", "", calc')
    /\ UNCHANGED <<SETTINGS, VAULTS, PENDING_MINTS, now, builds, finalizes,
                   broadcasts, savedVaults, issued, mintCount, lastPendingOp,
                   signs>>

\* set_collateral_params(ratio_bps: u16, usd_cents: u32)
CollateralParams == {0, 10000, 13000, 15000} \X {0, 5, 2000, 100000}

InitPreview == InitBuild

NextPreview ==
    \/ set_xrc_config
    \/ \E c \in CollateralParams : set_collateral_params(c[1], c[2])
    \/ \E i \in Procs : PreviewStart(i)
    \/ \E i \in Procs, answer \in XrcAnswers : PreviewXrcReply(i, answer)

SpecPreview == InitPreview /\ [][NextPreview]_vars

(***************************************************************************)
(* build_mint_overrides with the addresses of the request.                 *)
(***************************************************************************)
\* request.payment.address, request.ordinals.address, the fee recipient of
\* the settings and the vault address: all different, or one the same as
\* another
OverrideAddresses ==
    { [payment |-> "tb1qpay", ordinals |-> o, fee_recipient |-> f, vault |-> v] :
        o \in {"tb1pord", "tb1qpay"}, f \in {"tb1qfee", "tb1qpay", "tb1pord"},
        v \in {"tb1pvault", "tb1qfee"} }

OverrideAddressInputs ==
    {[kind |-> "overrides_at",
      cfg |-> [c EXCEPT !.fee_recipient_address = a.fee_recipient],
      addresses |-> a, vault_sats |-> v, utxo_response |-> r] :
       c \in {f \in FeeConfigs : f.fee_recipient_address # ""},
       a \in OverrideAddresses, v \in VaultSats, r \in UtxoReplies}

InitOverrides ==
    /\ InitCanister([layout |-> "none"])
    /\ calc \in {[fn |-> "input", args |-> a] : a \in OverrideAddressInputs}

OverridesAt ==
    /\ calc.fn = "input" /\ calc.args.kind = "overrides_at"
    /\ Apply("build_mint_overrides_at",
             build_mint_overrides(calc.args.cfg, calc.args.addresses.payment,
                                  calc.args.addresses.ordinals,
                                  calc.args.addresses.vault,
                                  calc.args.vault_sats,
                                  calc.args.utxo_response))

NextOverrides == OverridesAt

SpecOverrides == InitOverrides /\ [][NextOverrides]_vars

(***************************************************************************)
(* Properties.                                                             *)
(***************************************************************************)
\* C1: in every reachable state no vault id is a key of both PENDING_MINTS
\* and VAULTS, whatever vault id the backend echoes in its responses.
C1_PendingAndStoredDisjoint ==
    (DOMAIN PENDING_MINTS) \cap (DOMAIN VAULTS) = {}

C3_FinalizedAtMostOnce ==
    \A k \in DOMAIN mintCount : mintCount[k] <= 1

\* C4: a finalize_mint that starts for a vault id while another invocation is
\* suspended holding the taken record of that id returns vault_not_pending at
\* once, without a backend request or broadcast, so that at most one
\* invocation at a time holds the taken record of an id.
C4_SecondFinalizeRejected ==
    [][\A i \in Procs, body_ok \in BOOLEAN :
         \A v \in RequestVaultIds :
           ( /\ FinalizeStart(i, v, body_ok)
             /\ \E j \in Procs : Holds(j) /\ inv[j].req_vault_id = v )
           => /\ inv'[i].pc = "idle"
              /\ PENDING_MINTS' = PENDING_MINTS
              /\ v \in DOMAIN lastPendingOp'
              /\ lastPendingOp'[v].op = "take_none"
      ]_vars

\* C5: after a reservation of a vault id the first take_pending_mint returns
\* the reserved record and removes it; a second take with no restore and no
\* reservation in between returns nothing (finalize_mint: vault_not_pending).
C5_TakeRemovesOnce ==
    \A k \in DOMAIN lastPendingOp :
      LET last == lastPendingOp[k] IN
        /\ last.op \in {"reserve", "restore"}
             => k \in DOMAIN PENDING_MINTS /\ last.rec = Some(PENDING_MINTS[k])
        /\ last.op = "take"
             => /\ k \notin DOMAIN PENDING_MINTS
                /\ last.prev \in {"reserve", "restore"}
                /\ last.rec = last.prev_rec
        /\ last.op = "take_none"
             => /\ k \notin DOMAIN PENDING_MINTS
                /\ last.prev \in {"none", "take", "take_none"}

\* a second take of an id came after a first take and returned nothing
C5_Witness ==
    \E k \in DOMAIN lastPendingOp :
      lastPendingOp[k].op = "take_none" /\ lastPendingOp[k].prev = "take"

\* C6: for any pending record, take_pending_mint followed by
\* restore_pending_mint of the returned record leaves the pending store as it
\* was before the take, and a take after that returns a record equal in every
\* field to the first one.
C6_TakeRestoreIdentity ==
    /\ \A k \in DOMAIN PENDING_MINTS :
         LET first == take_pending_mint(PENDING_MINTS, k)
             restored == restore_pending_mint(first.store, first.record.val)
         IN /\ first.record = Some(PENDING_MINTS[k])
            /\ restored = PENDING_MINTS
            /\ take_pending_mint(restored, k).record = first.record
    /\ \A k \in DOMAIN lastPendingOp :
         (lastPendingOp[k].op = "take" /\ lastPendingOp[k].prev = "restore")
           => lastPendingOp[k].rec = lastPendingOp[k].prev_rec

\* a record was taken, restored, and taken again
C6_Witness ==
    \E k \in DOMAIN lastPendingOp :
      /\ lastPendingOp[k].op = "take"
      /\ lastPendingOp[k].prev = "restore"
      /\ lastPendingOp[k].rec.some

\* C7: VAULTS changes only in the step of a finalize_mint invocation that
\* resumes from a successful bitcoin_send_transaction: the insertion is in the
\* same step as the Ok reply, and no other operation creates a stored record.
C7_InsertOnlyAfterBroadcast ==
    [][VAULTS' # VAULTS =>
         /\ broadcasts' = broadcasts + 1
         /\ \E i \in Procs :
              /\ inv[i].op = "finalize_mint"
              /\ inv[i].pc = "f_send"
              /\ inv'[i].pc = "idle"
              /\ VAULTS' = persist_finalized_vault(VAULTS, inv[i].pending.val,
                                                   inv[i].txid_value,
                                                   inv[i].settings)
      ]_vars

\* a broadcast was accepted and its vault is stored
C7_Witness ==
    /\ broadcasts >= 1
    /\ \E k \in DOMAIN VAULTS : k \in DOMAIN mintCount

C9_IdsStrictlyIncrease ==
    issued.last # 0 => issued.last >= 1 /\ issued.last > issued.max_before

\* C10: the key under which build_psbt stores the pending record is the id
\* next_vault_id gave this invocation, whatever vault id the backend echoes.
C10_StoredUnderAllocatedId ==
    [][\A i \in Procs :
         ( /\ inv[i].op = "build_psbt"
           /\ inv[i].pc = "b_http"
           /\ inv'[i].pc = "idle"
           /\ PENDING_MINTS' # PENDING_MINTS )
         => LET id == to_string(inv[i].vault_id) IN
              /\ id \in DOMAIN PENDING_MINTS'
              /\ \A k \in DOMAIN PENDING_MINTS' :
                   k # id => /\ k \in DOMAIN PENDING_MINTS
                             /\ PENDING_MINTS'[k] = PENDING_MINTS[k]
      ]_vars
\* C12: protocol_derivation_path(v) is the list ["usdb", "proto", the 8
\* big-endian bytes of v], and two vault ids have the same path only if they
\* are the same id.
C12_DerivationPathInjective ==
    calc.fn = "protocol_derivation_path" =>
      LET v == calc.args.vault_id
          path == calc.out
      IN /\ Len(path) = 3
         /\ path[1] = "usdb" /\ path[2] = "proto"
         /\ Len(path[3]) = 8
         /\ \A i \in 1..8 : path[3][i] \in 0..255
         /\ BeValue(path[3]) = v
         /\ \A b \in PathIds \cup (0 .. U64Max) :
              (protocol_derivation_path(b) = path) <=> (b = v)

\* the path of an id with more than one significant byte was computed
C12_Witness ==
    /\ calc.fn = "protocol_derivation_path"
    /\ calc.args.vault_id >= 256
    /\ \E b \in PathIds : b # calc.args.vault_id /\ b % 256 = calc.args.vault_id % 256

\* the prices the f64 holds exactly: multiples of 0.50
PriceIsExact(cents) == cents % 50 = 0

\* ceil((usd_cents / 100) * (ratio_bps / 10000) / (cents / 100) * 1e8) in
\* exact arithmetic, for a price that is a multiple of 0.50
ExactCeilSats(cents, ratio_bps, usd_cents) ==
    LET halves == cents \div 50
    IN (usd_cents * ratio_bps * 200 + halves - 1) \div halves

\* C13: for every price > 0 compute_target_collateral_sats returns the
\* ceiling of the exact real value (usd_cents/100) * (ratio_bps/10000) /
\* price * 1e8: not below it and less than it plus 1.
C13_ExactCeiling ==
    ( /\ calc.fn = "compute_target_collateral_sats"
      /\ PriceIsExact(calc.args.price_cents)
      /\ calc.args.usd_cents <= MaxUsdCents )
    => calc.out = ExactCeilSats(calc.args.price_cents, calc.args.ratio_bps,
                                calc.args.usd_cents)

\* C14: for every price > 0 compute_target_collateral_sats is non-decreasing
\* in ratio_bps, non-decreasing in usd_cents and non-increasing in the price.
C14_Monotone ==
    calc.fn = "compute_target_collateral_sats" =>
      LET a == calc.args IN
        /\ \A r \in RatioBps : r >= a.ratio_bps =>
             compute_target_collateral_sats(F64FromCents(a.price_cents), r,
                                            a.usd_cents) >= calc.out
        /\ \A u \in UsdCents : u >= a.usd_cents =>
             compute_target_collateral_sats(F64FromCents(a.price_cents),
                                            a.ratio_bps, u) >= calc.out
        /\ \A c \in PriceCents : c >= a.price_cents =>
             compute_target_collateral_sats(F64FromCents(c), a.ratio_bps,
                                            a.usd_cents) <= calc.out

\* a result that a larger price lowers and a larger ratio raises
C14_Witness ==
    /\ calc.fn = "compute_target_collateral_sats"
    /\ calc.out > 0
    /\ \E c \in PriceCents :
         /\ c > calc.args.price_cents
         /\ compute_target_collateral_sats(F64FromCents(c), calc.args.ratio_bps,
                                           calc.args.usd_cents) < calc.out
    /\ \E r \in RatioBps :
         /\ r > calc.args.ratio_bps
         /\ compute_target_collateral_sats(F64FromCents(calc.args.price_cents),
                                           r, calc.args.usd_cents) > calc.out

\* the inputs of the worked example: 100734.10 USD, 130 %, 20 USD
IsWorkedExample ==
    /\ calc.fn = "compute_target_collateral_sats"
    /\ calc.args.price_cents = COLLATERAL_FALLBACK_PRICE_USD
    /\ calc.args.ratio_bps = 13000
    /\ calc.args.usd_cents = 2000

\* C15 as stated: for price 100734.10, ratio 13000 bps and 2000 cents
\* compute_target_collateral_sats returns 25815 satoshis.
C15_WorkedExampleAsStated ==
    IsWorkedExample => calc.out = 25815

\* C15 amended: for price 100734.10, ratio 13000 bps and 2000 cents
\* compute_target_collateral_sats returns 25811 satoshis, the ceiling of
\* 20 * 1.3 / 100734.10 * 1e8 = 25810.52...
C15_WorkedExample ==
    IsWorkedExample => calc.out = 25811

C15_Witness ==
    IsWorkedExample /\ calc.out = 25811
\* C20: for every 32-byte value x, parse_x_only_key returns x for the hex
\* text of x and for the hex text of 0x02 || x and of 0x03 || x.
C20_ParseKeyRoundTrip ==
    ( /\ calc.fn = "parse_x_only_key"
      /\ calc.args.encoding \in {"x_only", "even", "odd"}
      /\ calc.args.text \in {"lower", "upper", "padded"} )
    => calc.out = Ok(calc.args.x)

\* a compressed encoding was parsed to its 32-byte value
C20_Witness ==
    /\ calc.fn = "parse_x_only_key"
    /\ calc.args.encoding = "odd"
    /\ calc.args.text = "lower"
    /\ calc.out.ok
    /\ Len(calc.out.val) = X_ONLY_KEY_LEN
    /\ calc.out.val = calc.args.x
    /\ calc.args.x[1] # calc.args.x[2]
\* the sum of the values of the first n outputs of a list
RECURSIVE SumValues(_, _)
SumValues(utxos, n) ==
    IF n = 0 THEN 0 ELSE SumValues(utxos, n - 1) + utxos[n].value

\* srt is the list utxos in ascending order of (value, vout)
IsSortedOrderOf(srt, utxos) ==
    /\ Len(srt) = Len(utxos)
    /\ \A u \in UtxoPool :
         Cardinality({i \in DOMAIN srt : srt[i] = u})
           = Cardinality({i \in DOMAIN utxos : utxos[i] = u})
    /\ \A i, j \in DOMAIN srt :
         i < j => \/ srt[i].value < srt[j].value
                  \/ srt[i].value = srt[j].value /\ srt[i].vout <= srt[j].vout

\* build_mint_overrides went as far as the selection
SelectionMade ==
    /\ calc.fn = "build_mint_overrides"
    /\ ~OverridesDisabled(calc.args.cfg)
    /\ calc.args.utxo_response.ok

\* C16: when the outputs sum to at least total_required T, the selection is
\* the shortest prefix of the outputs in ascending (value, vout) order whose
\* sum S' is at least T, and the change is S' - T with no saturation.
C16_ShortestPrefix ==
    LET utxos == calc.args.utxo_response.val
        T == total_required(calc.args.cfg, calc.args.vault_sats)
    IN ( SelectionMade /\ SumValues(utxos, Len(utxos)) >= T ) =>
         /\ calc.out.ok /\ calc.out.val.some
         /\ LET payload == calc.out.val.val
                n == Len(payload.inputs)
            IN \E srt \in UtxoLists :
                 /\ IsSortedOrderOf(srt, utxos)
                 /\ n \in 1..Len(srt)
                 /\ \A i \in 1..n :
                      payload.inputs[i] = [txid |-> txid_bytes_to_hex(srt[i].txid),
                                           vout |-> srt[i].vout]
                 /\ SumValues(srt, n) >= T
                 /\ SumValues(srt, n - 1) < T
                 /\ SumValues(srt, n) <= SatsMax
                 /\ IF SumValues(srt, n) > T
                    THEN payload.outputs_json["tb1qpay"]
                           = [btc |-> sats_to_btc_float(SumValues(srt, n) - T)]
                    ELSE "tb1qpay" \notin DOMAIN payload.outputs_json

\* a selection of two outputs of three with change left over
C16_Witness ==
    /\ SelectionMade
    /\ Len(calc.args.utxo_response.val) = 3
    /\ calc.out.val.some
    /\ Len(calc.out.val.val.inputs) = 2
    /\ "tb1qpay" \in DOMAIN calc.out.val.val.outputs_json

\* C17: whenever build_mint_overrides returns a selection for
\* total_required T, no proper subset of the selected outputs sums to T or more.
C17_MinimalCover ==
    ( SelectionMade /\ calc.out.val.some ) =>
      LET T == total_required(calc.args.cfg, calc.args.vault_sats)
          srt == sort_by_value_vout(calc.args.utxo_response.val)
          n == Len(calc.out.val.val.inputs)
      IN \A keep \in SUBSET (1..n) :
           keep # 1..n =>
             SumValues([i \in 1..Cardinality(keep) |->
                          srt[CHOOSE k \in keep :
                                Cardinality({m \in keep : m < k}) = i - 1]],
                       Cardinality(keep)) < T

\* the signer requests the invocation of slot i has issued
RequestsOf(i) ==
    (IF inv[i].derive_call.some THEN {inv[i].derive_call.val} ELSE {})
      \cup (IF inv[i].call.some THEN {inv[i].call.val} ELSE {})

\* C11: for a given vault id every schnorr_public_key request and every
\* sign_with_schnorr request carries the same key id and the same derivation
\* path, also when set_schnorr_key runs between building and signing or
\* between the derive step and the sign step of one sign_protocol_withdraw;
\* the key that signs is the key that was derived.
C11_SameSignerKey ==
    /\ \A i, j \in Procs : \A a \in RequestsOf(i), b \in RequestsOf(j) :
         a.derivation_path = b.derivation_path => a.key_id = b.key_id
    /\ \A i \in Procs :
         inv[i].pc = "s_sign" =>
           /\ inv[i].call.val.derivation_path
                = protocol_derivation_path(inv[i].vault_id)
           /\ SubnetKey(inv[i].call.val) = inv[i].protocol_key.val

\* the outputs of the answer do not cover what the build of `slot` requires
NoCover(slot, reply) ==
    \/ ~reply.ok
    \/ reply.val = <<>>
    \/ SumValues(reply.val, Len(reply.val))
         < total_required(slot.settings, slot.vault_sats)

\* C18: when the outputs of the funding address sum to less than
\* total_required, or the query fails or returns nothing, build_psbt goes on
\* to the backend request with inputs_override and outputs_override_json
\* absent: insufficient funds alone never makes it return an error (the
\* step below is the one in which the request body serializes).
C18_NoOverrideStillSends ==
    [][ \A i \in Procs, reply \in BuildUtxoReplies :
          ( /\ inv[i].pc = "b_utxos"
            /\ NoCover(inv[i], reply)
            /\ BuildUtxosReply(i, reply, TRUE) )
          => /\ inv'[i].pc = "b_http"
             /\ inv'[i].utxo_response = Some(reply)
             /\ inv'[i].override_payload = None
             /\ BackendBuildPsbtRequest(inv'[i]).inputs_override = None
             /\ BackendBuildPsbtRequest(inv'[i]).outputs_override_json = None
             /\ BackendBuildPsbtRequest(inv'[i]).amounts_vault_sats
                  = Some(inv[i].vault_sats) ]_vars

\* a build waits for the backend after outputs that did not cover
C18_Witness ==
    \E i \in Procs :
      /\ inv[i].pc = "b_http"
      /\ inv[i].utxo_response.some
      /\ inv[i].utxo_response.val.ok
      /\ inv[i].utxo_response.val.val # <<>>
      /\ NoCover(inv[i], inv[i].utxo_response.val)
      /\ ~inv[i].override_payload.some

\* the collateral the fallback price gives under the settings of `slot`
FallbackSats(slot) ==
    compute_target_collateral_sats(F64FromCents(COLLATERAL_FALLBACK_PRICE_USD),
                                   slot.settings.collateral_ratio_bps,
                                   slot.settings.collateral_usd_cents)

\* C19: when the live price is unavailable and the request has no vault_sats,
\* build_psbt sizes the collateral with the fallback price and goes on;
\* no build returns at the sizing step (vault_sats_unavailable).
C19_FallbackSizing ==
    [][ \A i \in Procs :
          /\ ( inv[i].pc = "b_xrc" /\ inv'[i] # inv[i] )
               => /\ inv'[i].pc = "b_derive"
                  /\ \A reply \in XrcReplies :
                       ( /\ BuildXrcReply(i, reply)
                         /\ ~xrc_btc_usd_price(reply).some
                         /\ ~inv[i].user_override_vault.some )
                       => /\ inv'[i].vault_sats = FallbackSats(inv[i])
                          /\ inv'[i].price_used = COLLATERAL_FALLBACK_PRICE_USD
          /\ ( /\ inv[i].pc = "idle"
               /\ BuildStart(i, None)
               /\ SETTINGS.backend_base_url # ""
               /\ SETTINGS.xrc_canister_id = None )
               => /\ inv'[i].pc = "b_derive"
                  /\ inv'[i].vault_sats = FallbackSats(inv'[i]) ]_vars

\* a build sized with the fallback price after the price call failed
C19_Witness ==
    \E i \in Procs :
      /\ inv[i].pc = "b_derive"
      /\ SETTINGS.xrc_canister_id # None
      /\ ~inv[i].user_override_vault.some
      /\ inv[i].price_used = COLLATERAL_FALLBACK_PRICE_USD
      /\ inv[i].vault_sats = FallbackSats(inv[i])
      /\ inv[i].vault_sats > 0

(***************************************************************************)
(* Script numbers.                                                         *)
(***************************************************************************)
\* the minimal push of a number 0..255: OP_0, OP_1..OP_16, or a data push
\* of its little-endian bytes, with a zero byte after a top bit that is set
MinimalScriptNum(value) ==
    IF value = 0 THEN <<0>>
    ELSE IF value <= 16 THEN <<80 + value>>
    ELSE IF value < 128 THEN <<1, value>>
    ELSE <<2, value, 0>>

\* C30: for every threshold 0..255 encode_script_num emits the minimally
\* encoded script number: 0x00 for 0, the single opcode 0x50 + n for 1..16,
\* and a length-prefixed data push of the number for values above 16.
C30_MinimalScriptNum ==
    calc.fn = "encode_script_num"
      => calc.out = MinimalScriptNum(calc.args.value)

(***************************************************************************)
(* Leaf scripts.                                                           *)
(***************************************************************************)
\* 0x20 k0 0xAC 0x20 k1 0xBA 0x52 0x9C
TwoKeyLeaf(k0, k1) == <<32>> \o k0 \o <<172, 32>> \o k1 \o <<186, 82, 156>>

\* derive_vault_address parsed its five keys and built the leaves
LeavesBuilt ==
    /\ calc.fn = "derive_vault_address"
    /\ "leaf_a_script" \in DOMAIN calc.out

\* C29: multi_a_script for two keys and threshold 2 is the 70 bytes
\* 0x20 k0 0xAC 0x20 k1 0xBA 0x52 0x9C with the keys in the order given, and
\* exchanging two different keys changes the script; derive_vault_address
\* builds leaf A from the protocol key and the user key and leaf B from
\* guardian quorum key A and guardian quorum key B, in that order.
C29_LeafScripts ==
    /\ calc.fn = "multi_a_script" =>
          /\ calc.out = TwoKeyLeaf(calc.args.k0, calc.args.k1)
          /\ Len(calc.out) = 70
          /\ calc.args.k0 # calc.args.k1 =>
                multi_a_script(<<calc.args.k1, calc.args.k0>>, 2) # calc.out
    /\ LeavesBuilt =>
          /\ calc.out.leaf_a_script =
                TwoKeyLeaf(parse_x_only_key(Chars(calc.args.protocol)).val,
                           parse_x_only_key(Chars(calc.args.user)).val)
          /\ calc.out.leaf_b_script =
                TwoKeyLeaf(parse_x_only_key(Chars(calc.args.keys_cfg.vault_key_a)).val,
                           parse_x_only_key(Chars(calc.args.keys_cfg.vault_key_b)).val)
          /\ Len(calc.out.leaf_a_script) = 70
          /\ Len(calc.out.leaf_b_script) = 70

\* leaves built from four different keys
C29_Witness ==
    /\ LeavesBuilt
    /\ parse_x_only_key(Chars(calc.args.protocol)).val
         # parse_x_only_key(Chars(calc.args.user)).val
    /\ calc.args.keys_cfg = ProtocolKeysDefault
    /\ calc.out.leaf_a_script # calc.out.leaf_b_script

(***************************************************************************)
(* Branch hash.                                                            *)
(***************************************************************************)
\* C22: tap_branch_hash(a, b) = tap_branch_hash(b, a) for 32-byte a and b,
\* and the output key derive_vault_address computes is the one it would
\* compute with the two leaves exchanged.
C22_BranchCommutes ==
    /\ calc.fn = "tap_branch_hash" =>
          calc.out = tap_branch_hash(calc.args.right, calc.args.left)
    /\ LeavesBuilt =>
          LET exchanged == tap_branch_hash(tap_leaf_hash(calc.out.leaf_b_script),
                                           tap_leaf_hash(calc.out.leaf_a_script))
              guardian == parse_x_only_key(
                              Chars(calc.args.keys_cfg.guardian_internal_key)).val
          IN /\ calc.out.merkle_root = exchanged
             /\ calc.out.output_key = taproot_output_key(guardian, Some(exchanged))

\* the operands were given larger first
C22_Witness ==
    /\ calc.fn = "tap_branch_hash"
    /\ ~ArrayLeq(calc.args.left, calc.args.right)
    /\ calc.out = tagged_hash("TapBranch", calc.args.right \o calc.args.left)
    /\ calc.out # tagged_hash("TapBranch", calc.args.left \o calc.args.right)

(***************************************************************************)
(* Malformed keys.                                                         *)
(***************************************************************************)
IsHexDigit(ch) == \E d \in 1..16 : ch = HexLower[d] \/ ch = HexUpper[d]

\* an even number of hex digits and nothing else
IsHexText(chars) ==
    /\ Len(chars) % 2 = 0
    /\ \A i \in 1..Len(chars) : IsHexDigit(chars[i])

\* not hex, or hex of neither 32 nor 33 bytes, or hex of 33 bytes whose
\* first byte is neither 0x02 nor 0x03
Malformed(chars) ==
    \/ ~IsHexText(chars)
    \/ Len(chars) \div 2 \notin {X_ONLY_KEY_LEN, COMPRESSED_KEY_LEN}
    \/ /\ Len(chars) \div 2 = COMPRESSED_KEY_LEN
       /\ SubSeq(chars, 1, 2) \notin {<<"0", "2">>, <<"0", "3">>}

\* the text parse_x_only_key was given
ParsedText == KeyText(EncodeKey(calc.args.x, calc.args.encoding), calc.args.text)

\* the five key texts derive_vault_address was given
DerivedTexts ==
    { Chars(calc.args.keys_cfg.guardian_internal_key),
      Chars(calc.args.keys_cfg.vault_key_a),
      Chars(calc.args.keys_cfg.vault_key_b),
      Chars(calc.args.protocol), Chars(calc.args.user) }

\* C21 as stated: parse_x_only_key returns an error, and derive_vault_address
\* returns an error and no address, for every input that is not valid hex,
\* that decodes to neither 32 nor 33 bytes, or that decodes to 33 bytes with
\* a first byte other than 0x02 or 0x03.
C21_MalformedRejectedAsStated ==
    /\ (calc.fn = "parse_x_only_key" /\ Malformed(ParsedText)) => ~calc.out.ok
    /\ (calc.fn = "derive_vault_address"
          /\ \E text \in DerivedTexts : Malformed(text))
         => ~calc.out.result.ok

\* C21 (amended): the same for every input whose text, with the whitespace
\* around it removed, is malformed in one of these ways.
C21_MalformedRejected ==
    /\ (calc.fn = "parse_x_only_key" /\ Malformed(trim(ParsedText)))
         => ~calc.out.ok
    /\ (calc.fn = "derive_vault_address"
          /\ \E text \in DerivedTexts : Malformed(trim(text)))
         => /\ ~calc.out.result.ok
            /\ ~LeavesBuilt

\* a well-formed configuration and protocol key, and a user key of 33 bytes
\* that starts with 0x04
C21_Witness ==
    /\ calc.fn = "derive_vault_address"
    /\ calc.args.keys_cfg = ProtocolKeysDefault
    /\ ~Malformed(trim(Chars(calc.args.protocol)))
    /\ Len(calc.args.user) = 2 * COMPRESSED_KEY_LEN
    /\ SubSeq(calc.args.user, 1, 2) = "04"
    /\ calc.out.result = Err("invalid_compressed_pubkey")

(***************************************************************************)
(* The vault address as a function of its keys.                            *)
(***************************************************************************)
\* the address a build holds is the one derive_vault_address gives now
AddressRecomputes(i) ==
    derive_vault_address(
        inv[i].settings.protocol_keys,
        ProtocolKeyTable[inv[i].derive_call.val, "len_32"].val.public_key_hex,
        inv[i].user_key) = Ok(inv[i].vault_address)

AnyBlank(keys) ==
    \/ IsBlank(keys.guardian_internal_key)
    \/ IsBlank(keys.vault_key_a)
    \/ IsBlank(keys.vault_key_b)

\* the configurations set_protocol_keys stores
AcceptedConfigs ==
    {StoredProtocolKeys(keys) : keys \in {k \in SetProtocolKeysInputs : ~AnyBlank(k)}}

\* C27: set_protocol_keys with an empty or whitespace-only key leaves the
\* settings unchanged, the three configured keys are never empty, and no
\* build_psbt whose signer key and user key are well-formed fails in
\* derive_vault_address when the configured keys are ones that
\* set_protocol_keys accepted.
C27_KeysCheckedAtConfiguration ==
    [][ /\ \A keys \in SetProtocolKeysInputs :
             (set_protocol_keys(keys) /\ AnyBlank(keys)) => SETTINGS' = SETTINGS
        /\ ~AnyBlank(SETTINGS'.protocol_keys)
        /\ \A i \in {p \in Procs : inv[p].pc = "b_derive" /\ inv'[p] # inv[p]},
              reply \in DeriveReplies, user_key \in UserKeysWide :
             ( /\ BuildDeriveReply(i, reply, user_key, TRUE)
               /\ ProtocolKeyTable[inv[i].call.val, reply].ok
               /\ parse_x_only_key(Chars(user_key)).ok
               /\ inv[i].settings.protocol_keys \in AcceptedConfigs )
             => inv'[i].vault_address # ""
      ]_vars

(***************************************************************************)
(* The protocol key.                                                       *)
(***************************************************************************)
\* 32 bytes, or 33 bytes that start with 0x02 or 0x03
IsKeyShaped(public_key) ==
    \/ Len(public_key) = X_ONLY_KEY_LEN
    \/ /\ Len(public_key) = COMPRESSED_KEY_LEN
       /\ public_key[1] \in {2, 3}

\* the answers with a public key that derive_protocol_key refuses
RefusedReplies(call) ==
    {reply \in DeriveReplies \ {"reject"} : ~ProtocolKeyTable[call, reply].ok}

\* C25: derive_protocol_key returns a key only when the signer's public key
\* is 32 bytes, or 33 bytes with a first byte 0x02 or 0x03, which it drops;
\* the key returned is 32 bytes; every other length or first byte gives
\* invalid_protocol_pubkey_length, and build_psbt then returns without
\* storing a pending record.
C25_ProtocolKeyShape ==
    [][ /\ \A i \in {p \in Procs : inv[p].pc \in {"b_derive", "s_derive"}},
              reply \in DeriveReplies \ {"reject"} :
             LET response == SchnorrPublicKeyResponseTable[inv[i].call.val, reply].val
                 derived == ProtocolKeyTable[inv[i].call.val, reply]
             IN /\ derived.ok <=> IsKeyShaped(response.public_key)
                /\ derived.ok =>
                     /\ Len(derived.val.public_key) = X_ONLY_KEY_LEN
                     /\ derived.val.public_key =
                          SubSeq(response.public_key,
                                 Len(response.public_key) - X_ONLY_KEY_LEN + 1,
                                 Len(response.public_key))
                     /\ Len(derived.val.public_key_hex) = 2 * X_ONLY_KEY_LEN
                /\ ~derived.ok => derived.err = "invalid_protocol_pubkey_length"
        /\ \A i \in {p \in Procs : inv[p].pc = "b_derive" /\ inv'[p] # inv[p]} :
             \A reply \in RefusedReplies(inv[i].call.val) :
               (\E user_key \in UserKeysWide, body_ok \in BOOLEAN :
                   BuildDeriveReply(i, reply, user_key, body_ok))
                 => /\ inv'[i] = IdleSlot
                    /\ PENDING_MINTS' = PENDING_MINTS
                    /\ lastPendingOp' = lastPendingOp
      ]_vars

\* a build holds the 32-byte key made of a 33-byte answer
C25_Witness ==
    \E i \in Procs :
      /\ inv[i].op = "build_psbt"
      /\ inv[i].protocol_key # None
      /\ LET call == inv[i].derive_call.val IN
           /\ Len(SchnorrPublicKeyResponseTable[call, "len_33_odd"].val.public_key)
                = COMPRESSED_KEY_LEN
           /\ ProtocolKeyTable[call, "len_33_odd"].ok
           /\ Len(ProtocolKeyTable[call, "len_33_odd"].val.public_key)
                = X_ONLY_KEY_LEN

(***************************************************************************)
(* Signing.                                                                *)
(***************************************************************************)
\* a field of the request has a length sign_withdraw refuses: a tapleaf hash
\* or a merkle root (one that is given and not empty) of other than 32
\* bytes, a sighash of neither 32 bytes nor 64
InvalidLength(request) ==
    \/ Len(request.tapleaf_hash) # 32
    \/ /\ request.merkle_root.some
       /\ request.merkle_root.val # <<>>
       /\ Len(request.merkle_root.val) # 32
    \/ Len(request.sighash) \notin {32, 64}

\* C26: sign_protocol_withdraw returns the signature exactly when the
\* signer's answer has 64 bytes and invalid_protocol_signature_length for an
\* answer of any other length; the message of its sign_with_schnorr request
\* is the 32-byte digest it was given; sign_withdraw makes no signer request
\* for a request with a tapleaf_hash, merkle_root or sighash of invalid
\* length.
C26_SignerLengths ==
    [][ /\ \A i \in {p \in Procs : inv[p].pc = "s_sign"} :
             /\ inv[i].call.val.method = "sign_with_schnorr"
             /\ inv[i].call.val.message = inv[i].msg_hash
             /\ Len(inv[i].call.val.message) = 32
             /\ \A reply \in SignReplies \ {"reject"} :
                  LET response == SignWithSchnorrResponse(inv[i].call.val, reply).val
                      result == SignResult(inv[i], reply)
                  IN /\ result.ok <=> Len(response.signature) = 64
                     /\ result.ok => result.val = response.signature
                     /\ ~result.ok =>
                          result.err = "invalid_protocol_signature_length"
        /\ \A i \in {p \in Procs : inv[p].pc = "s_derive" /\ inv'[p].pc = "s_sign"} :
             inv'[i].msg_hash = inv[i].msg_hash
        /\ signs' # signs =>
             \A i \in {p \in Procs : FirstIdle(p)}, request \in WithdrawSignRequestsWide :
               SignStart(i, request) =>
                 /\ InvalidLength(request) => inv'[i] = IdleSlot
                 /\ inv'[i].pc = "s_derive" =>
                      /\ inv'[i].call.val.method = "schnorr_public_key"
                      /\ Len(request.sighash) = 32
                           => inv'[i].msg_hash = request.sighash
                      /\ Len(request.sighash) = 64
                           => as_bytes(to_hex(inv'[i].msg_hash)) = request.sighash
      ]_vars

\* a sign request for the second digest is out
C26_Witness ==
    \E i \in Procs :
      /\ inv[i].pc = "s_sign"
      /\ inv[i].call.val.message = Digest2
      /\ SignResult(inv[i], "len_64").ok
      /\ ~SignResult(inv[i], "len_65").ok

\* the word "timeout" as it is spelled is part of the message
NamesTimeout(msg) ==
    \E k \in 1..(Len(msg) - 6) : SubSeq(msg, k, k + 6) = "timeout"

\* the word is part of the message in whatever case its letters are
NamesTimeoutAnyCase(msg) ==
    \E k \in 1..(Len(msg) - 6) : to_lowercase(SubSeq(msg, k, k + 6)) = "timeout"

\* the rejections to retry, by the word as it is spelled and by the word in
\* any case
RetryableAsSpelled ==
    [ reject \in HttpRejectsWide |->
        \/ reject.code \in {"SysFatal", "SysTransient"}
        \/ NamesTimeout(reject.msg) ]

RetryableAnyCase ==
    [ reject \in HttpRejectsWide |->
        \/ reject.code \in {"SysFatal", "SysTransient"}
        \/ NamesTimeoutAnyCase(reject.msg) ]

\* the step of slot i on the answer `reply` to a backend request, when
\* `retryable` tells whether a rejection is one to try again: a response is
\* returned at once and the caller goes on with it; a retryable rejection of
\* the first or second request is followed by one more request; every other
\* rejection ends the invocation with an error and nothing broadcast
HttpPassAsStated(i, reply, retryable) ==
    LET pass == backend_http_request(inv[i].attempt, reply) IN
      IF reply.kind # "reject"
      THEN /\ pass.next = "return"
           /\ pass.result = Ok(reply)
           /\ ~(inv'[i].pc = inv[i].pc /\ inv'[i].attempt # inv[i].attempt)
           /\ inv'[i].pc \in {"w_derive", "w_send"} => inv'[i].response = Some(reply)
      ELSE IF retryable /\ inv[i].attempt + 1 < 3
      THEN /\ pass.next = "continue"
           /\ inv'[i] = [inv[i] EXCEPT !.attempt = @ + 1]
      ELSE /\ pass.next = "return"
           /\ ~pass.result.ok
           /\ inv'[i] = IdleSlot
           /\ broadcasts' = broadcasts

\* C28 as stated: backend_http_request makes at most 3 requests; it returns
\* the first response; it retries only a rejection whose code is SysFatal or
\* SysTransient or whose message contains "timeout"; any other rejection,
\* and a rejection of the third request, is returned as an error.
C28_BoundedRetriesAsStated ==
    [][ /\ \A i \in Procs : inv[i].attempt < 3 /\ inv'[i].attempt < 3
        /\ \A i \in {p \in Procs : inv[p].pc \in {"w_http", "w_resubmit"}
                                     /\ inv'[p] # inv[p]} :
             \A reply \in WithdrawHttpReplies :
               (WithdrawHttpReply(i, reply) \/ WithdrawResubmitReply(i, reply))
                 => HttpPassAsStated(i, reply,
                       reply.kind = "reject" /\ RetryableAsSpelled[reply])
      ]_vars

\* C28: backend_http_request makes at most 3 requests (1 initial plus
\* BACKEND_HTTP_MAX_RETRIES = 2 retries); it returns the first response; it
\* retries only a rejection whose code is SysFatal or SysTransient or whose
\* message contains "timeout" in any letter case; any other rejection, and a
\* rejection of the third request, is returned as an error string with no
\* further request.
C28_BoundedRetries ==
    [][ /\ \A i \in Procs :
             /\ inv[i].attempt <= BACKEND_HTTP_MAX_RETRIES
             /\ inv'[i].attempt <= BACKEND_HTTP_MAX_RETRIES
        /\ \A i \in {p \in Procs : inv[p].pc \in {"w_http", "w_resubmit"}
                                     /\ inv'[p] # inv[p]} :
             \A reply \in WithdrawHttpReplies :
               (WithdrawHttpReply(i, reply) \/ WithdrawResubmitReply(i, reply))
                 => HttpPassAsStated(i, reply,
                       reply.kind = "reject" /\ RetryableAnyCase[reply])
      ]_vars

\* the third request of a resubmission is out
C28_Witness ==
    \E i \in Procs :
      /\ inv[i].pc = "w_resubmit"
      /\ inv[i].attempt = BACKEND_HTTP_MAX_RETRIES

\* the bytes the sighash of the prompt in a response decodes to, when they
\* are 32
SighashOf ==
    [ response \in WithdrawResponses |->
        IF ~response.body.prompt.some THEN None
        ELSE LET decoded == from_hex(response.body.prompt.val.sighash) IN
               IF decoded.ok /\ Len(decoded.val) = 32 THEN Some(decoded.val)
               ELSE None ]

\* C24: finalize_withdraw sends its second request only after the first
\* response had status 202, the sighash of that response decoded to exactly
\* 32 bytes and sign_protocol_withdraw returned a 64-byte signature for that
\* sighash; the payload sent again carries that signature; when decoding or
\* signing fails the invocation returns an error, sends no second request
\* and broadcasts nothing.
C24_ResubmitAfterSignature ==
    [][ \A i \in {p \in Procs : inv'[p] # inv[p]} :
          /\ inv[i].pc \in {"w_http", "w_derive", "w_sign"}
               => ~inv[i].payload.val.protocolSignature.some
          /\ (inv'[i].pc = "w_resubmit" /\ inv[i].pc # "w_resubmit") =>
               /\ inv[i].pc = "w_sign"
               /\ inv[i].response.val.status = 202
               /\ SighashOf[inv[i].response.val].some
               /\ inv[i].call.val.method = "sign_with_schnorr"
               /\ inv[i].call.val.message = SighashOf[inv[i].response.val].val
               /\ \E reply \in SignReplies \ {"reject"} :
                    LET response == SignWithSchnorrResponse(inv[i].call.val, reply).val
                    IN /\ Len(response.signature) = 64
                       /\ inv'[i].payload =
                            Some([inv[i].payload.val EXCEPT !.protocolSignature =
                                    Some(to_hex(response.signature))])
          /\ inv[i].pc = "w_http" =>
               \A reply \in {r \in WithdrawResponses : r.status = 202} :
                 WithdrawHttpReply(i, reply) =>
                   IF SighashOf[reply].some
                   THEN inv'[i].pc = "w_derive"
                          => /\ inv'[i].response = Some(reply)
                             /\ inv'[i].msg_hash = SighashOf[reply].val
                   ELSE /\ ~WithdrawArgumentsTable[reply].ok
                        /\ inv'[i] = IdleSlot
                        /\ broadcasts' = broadcasts
          /\ inv[i].pc = "w_derive" =>
               \A reply \in DeriveReplies :
                 WithdrawDeriveReply(i, reply) =>
                   IF ProtocolKeyTable[inv[i].call.val, reply].ok
                   THEN /\ inv'[i].pc = "w_sign"
                        /\ inv'[i].call.val.message = inv[i].msg_hash
                   ELSE inv'[i] = IdleSlot /\ broadcasts' = broadcasts
          /\ inv[i].pc = "w_sign" =>
               \A reply \in SignReplies :
                 WithdrawSignReply(i, reply) =>
                   IF SignResult(inv[i], reply).ok
                   THEN inv'[i].pc = "w_resubmit"
                   ELSE inv'[i] = IdleSlot /\ broadcasts' = broadcasts
      ]_vars

\* a second request is out: it carries a signature, the first response had
\* status 202 and a sighash in upper-case hex
C24_Witness ==
    \E i \in Procs :
      /\ inv[i].pc = "w_resubmit"
      /\ inv[i].payload.val.protocolSignature.some
      /\ Len(inv[i].payload.val.protocolSignature.val) = 128
      /\ inv[i].response.val.body.prompt.val.sighash = to_hex_upper(Digest1)

\* a price above zero
IsPositive(price) ==
    \/ price.class = "inf"
    \/ price.class = "finite" /\ price.v.m > 0

\* C31: compute_target_collateral_sats is never invoked with a price that
\* is not positive: the price of a preview is an oracle price above zero or
\* the positive fallback constant.
C31_PricePositive ==
    calc.fn = "get_collateral_preview" =>
      /\ IsPositive(calc.out.val.price)
      /\ \/ calc.out.val.price = Finite(F64FromCents(COLLATERAL_FALLBACK_PRICE_USD))
         \/ /\ calc.args.answer.kind = "Ok"
            /\ calc.out.val.price = rate_price(calc.args.answer.rate)

\* the oracle call of the preview in `result` gave no price
OracleFailed(result) ==
    \/ result.args.answer.kind # "Ok"
    \/ F64LeqZero(rate_price(result.args.answer.rate))

\* C32: using_fallback_price of a preview is true if and only if the oracle
\* call failed and the price returned is the fallback constant, and false if
\* and only if the price returned is the oracle's price; the sats returned
\* are compute_target_collateral_sats of the price returned and the
\* collateral parameters SETTINGS holds when the preview is made.
C32_FallbackFlag ==
    [][ (calc'.fn = "get_collateral_preview"
           /\ (calc' # calc \/ \E i \in Procs : inv[i].pc = "p_xrc" /\ inv'[i].pc = "idle"))
        => LET out == calc'.out.val
               fallback == Finite(F64FromCents(COLLATERAL_FALLBACK_PRICE_USD))
           IN /\ out.using_fallback_price
                   <=> (OracleFailed(calc') /\ out.price = fallback)
              /\ ~out.using_fallback_price
                   <=> (/\ ~OracleFailed(calc')
                        /\ out.price = rate_price(calc'.args.answer.rate))
              /\ out.ratio_bps = SETTINGS.collateral_ratio_bps
              /\ out.usd_cents = SETTINGS.collateral_usd_cents
              /\ out.price.class = "finite" =>
                   out.sats = compute_target_collateral_sats(
                                  out.price.v, SETTINGS.collateral_ratio_bps,
                                  SETTINGS.collateral_usd_cents)
              /\ out.price.class # "finite" => out.sats = 0
      ]_vars

\* a preview at the oracle's price, which is the fallback price, made after
\* the collateral parameters were changed
C32_Witness ==
    /\ calc.fn = "get_collateral_preview"
    /\ calc.args.answer.kind = "Ok"
    /\ ~calc.out.val.using_fallback_price
    /\ calc.out.val.price = Finite(F64FromCents(COLLATERAL_FALLBACK_PRICE_USD))
    /\ calc.out.val.ratio_bps = 15000
    /\ calc.out.val.sats > 0

\* the collateral that `price` (cents) gives under the settings of `slot`
PriceSats(price, slot) ==
    compute_target_collateral_sats(F64FromCents(price),
                                   slot.settings.collateral_ratio_bps,
                                   slot.settings.collateral_usd_cents)

\* C33: the price snapshot of the pending record that a build stores is the
\* price from which the vault_sats sent to the backend by that build was
\* computed, in each of the three sizing cases.
C33_SnapshotSizedVault ==
    [][ \A i \in {p \in Procs : /\ inv[p].pc = "b_http"
                                /\ inv'[p] = IdleSlot
                                /\ PENDING_MINTS' # PENDING_MINTS} :
          \A k \in DOMAIN PENDING_MINTS' :
            (k \notin DOMAIN PENDING_MINTS \/ PENDING_MINTS'[k] # PENDING_MINTS[k])
              => BackendBuildPsbtRequest(inv[i]).amounts_vault_sats
                   = Some(PriceSats(PENDING_MINTS'[k].btc_price_usd, inv[i]))
      ]_vars

\* the collateral by precedence: the oracle's price, else the request's
\* vault_sats, else the fallback price
ChosenSats(price, slot) ==
    IF price.some THEN PriceSats(price.val, slot)
    ELSE IF slot.user_override_vault.some THEN slot.user_override_vault.val
    ELSE FallbackSats(slot)

BuildFails(i) ==
    \/ inv[i].pc = "idle" /\ inv' = inv /\ builds' = builds + 1
    \/ inv[i].pc \in {"b_xrc", "b_derive", "b_utxos"} /\ inv'[i] = IdleSlot
    \/ /\ inv[i].pc = "b_http"
       /\ inv'[i] = IdleSlot
       /\ \E reply \in HttpFailures : BuildHttpReply(i, reply)

\* a build that returns an error leaves PENDING_MINTS and VAULTS as they were
FailedBuildFrame ==
    \A i \in Procs : BuildFails(i) => UNCHANGED <<PENDING_MINTS, VAULTS>>

\* a record enters PENDING_MINTS on the step in which a build returns Ok, or
\* on the step in which a finalize_mint puts back the record it took
PendingOnlyAtSuccess ==
    \A k \in DOMAIN PENDING_MINTS' :
      (k \notin DOMAIN PENDING_MINTS \/ PENDING_MINTS'[k] # PENDING_MINTS[k])
        => \/ \E i \in Procs :
                /\ inv[i].op = "build_psbt" /\ inv[i].pc = "b_http"
                /\ inv'[i] = IdleSlot
                /\ lastPendingOp'[k].op = "reserve"
                /\ ~BuildFails(i)
           \/ \E i \in Procs :
                /\ Holds(i) /\ inv'[i] = IdleSlot
                /\ inv[i].pending = Some(PENDING_MINTS'[k])

\* every build before this step has returned an error: none is under way,
\* and nothing was ever stored or taken
EarlierBuildsFailed(i) ==
    /\ \A j \in Procs \ {i} : inv[j].pc = "idle"
    /\ finalizes = 0
    /\ DOMAIN PENDING_MINTS = {}
    /\ DOMAIN VAULTS = {}

\* the id a build is given is not the id a failed build was given
AllocatedIdFresh ==
    \A i \in {p \in Procs : inv[p].pc \in {"idle", "b_xrc"} /\ inv'[p].pc = "b_derive"} :
      (EarlierBuildsFailed(i) /\ issued.last # 0)
        => inv'[i].vault_id # issued.last

\* C35: a build_psbt that returns an error at any step leaves PENDING_MINTS
\* and VAULTS unchanged; a pending record is inserted only on the last step
\* of a build that succeeds; the vault id given to a build that failed is
\* not given to a later build.
C35_FailedBuild ==
    [][FailedBuildFrame /\ PendingOnlyAtSuccess /\ AllocatedIdFresh]_vars

\* finalize_mint with this request returns missing_vault_id,
\* backend_not_configured or vault_not_pending
FinalizeRefused(vault_id) ==
    \/ TrimIsEmpty(vault_id)
    \/ SETTINGS.backend_base_url = ""
    \/ vault_id \notin DOMAIN PENDING_MINTS

\* C36: a finalize_mint that fails with missing_vault_id,
\* backend_not_configured or vault_not_pending leaves PENDING_MINTS, VAULTS
\* and the settings unchanged, sends no backend request and broadcasts
\* nothing; so does a finalize for an unknown or an already finalized id.
C36_RefusedFinalize ==
    [][ finalizes' # finalizes =>
          \A i \in {p \in Procs : FirstIdle(p)}, body_ok \in BOOLEAN :
            \A vault_id \in RequestVaultIds :
              (FinalizeStart(i, vault_id, body_ok) /\ FinalizeRefused(vault_id))
                => /\ UNCHANGED <<PENDING_MINTS, VAULTS, SETTINGS, broadcasts>>
                   /\ inv' = inv
      ]_vars

\* a finalize_mint for a vault id that is stored already found no record,
\* while other records were pending
C36_Witness ==
    /\ DOMAIN PENDING_MINTS # {}
    /\ \E k \in DOMAIN VAULTS :
         /\ k \in DOMAIN lastPendingOp
         /\ lastPendingOp[k].op = "take_none"
         /\ k \notin DOMAIN PENDING_MINTS

\* C37: a pending record stays in PENDING_MINTS, unchanged, until a
\* finalize_mint for its vault id takes it: no other step (a setter, an
\* upgrade, a build_psbt or a finalize_mint for another id) removes or
\* changes it.
C37_PendingUntilTaken ==
    [][ \A k \in DOMAIN PENDING_MINTS :
          (k \notin DOMAIN PENDING_MINTS' \/ PENDING_MINTS'[k] # PENDING_MINTS[k])
            => /\ finalizes' = finalizes + 1
               /\ k \notin DOMAIN PENDING_MINTS'
               /\ lastPendingOp'[k].op = "take"
               /\ lastPendingOp'[k].rec = Some(PENDING_MINTS[k])
      ]_vars

\* no vault id is a key of PENDING_MINTS and of VAULTS at once
Exclusive(pending, vaults) == (DOMAIN pending) \cap (DOMAIN vaults) = {}

OverrideReturned ==
    /\ calc.fn = "build_mint_overrides_at"
    /\ calc.out.ok
    /\ calc.out.val.some

\* the four addresses of the input are four different addresses
AddressesDiffer ==
    Cardinality({calc.args.addresses.payment, calc.args.addresses.ordinals,
                 calc.args.addresses.fee_recipient,
                 calc.args.addresses.vault}) = 4

\* the output map of the override has one entry for the ordinals amount, one
\* for the fee, one for vault_sats under the vault address and, if and only
\* if there is change, one for the change; these amounts and
\* TX_FEE_BUFFER_SATS sum to the total of the inputs selected
OutputsAccountForInputs ==
    LET a == calc.args.addresses
        cfg == calc.args.cfg
        out == calc.out.val.val.outputs_json
        ordinals_sats == IF cfg.ordinals_sats > 0 THEN cfg.ordinals_sats
                         ELSE DEFAULT_ORDINALS_SATS
        fee_sats == IF cfg.fee_recipient_sats > 0 THEN cfg.fee_recipient_sats
                    ELSE DEFAULT_FEE_SATS
        srt == sort_by_value_vout(calc.args.utxo_response.val)
        total == SumValues(srt, Len(calc.out.val.val.inputs))
        change == total - (ordinals_sats + fee_sats + calc.args.vault_sats
                             + TX_FEE_BUFFER_SATS)
        amount(sats) == [btc |-> sats_to_btc_float(sats)]
    IN /\ change >= 0
       /\ {a.ordinals, a.fee_recipient, a.vault} \subseteq DOMAIN out
       /\ out[a.ordinals] = amount(ordinals_sats)
       /\ out[a.fee_recipient] = amount(fee_sats)
       /\ out[a.vault] = amount(calc.args.vault_sats)
       /\ change > 0 => a.payment \in DOMAIN out /\ out[a.payment] = amount(change)
       /\ Cardinality(DOMAIN out \ {"data"}) = IF change > 0 THEN 4 ELSE 3

\* C39: whenever build_mint_overrides returns an override, its output map
\* holds the ordinals amount, the fee amount, vault_sats under the vault
\* address and, if and only if change > 0, the change as separate entries, so
\* that the output amounts plus TX_FEE_BUFFER_SATS sum to the total of the
\* selected inputs, also when two of the four addresses are the same.
C39_SeparateOutputEntries ==
    OverrideReturned => OutputsAccountForInputs

====
